---- MODULE Spec2Model ----
(***************************************************************************)
(* FlowBeat: step sequencer / song arranger.                               *)
(* State machine of the pattern store with its undo history (useHistory),  *)
(* the playlist (SongMode), the transport (togglePlay, handleToggleRecord, *)
(* stopPlayback), the step/song sequence callbacks and the offline export  *)
(* scheduling (exportService).                                             *)
(*                                                                         *)
(* Units: transport time is counted in 16th-note steps (one tick of the    *)
(* Tone.Sequence, '16n'); note start/duration are counted in               *)
(* 1/UnitsPerStep of a step so that the fractional grid sizes of           *)
(* getSnapStepFromQuantizeValue are integers.                              *)
(***************************************************************************)
EXTENDS Integers, Sequences, FiniteSets, TLC

VARIABLES
    history,              \* useHistory state {past, present, future} over Pattern[]
    activePatternId,      \* useState activePatternId
    selectedChannelId,    \* useState selectedChannelId (NoChannel = null)
    brushPatternId,       \* useState brushPatternId
    playlist,             \* useState playlist: Map "track:bar" -> patternId
    playbackMode,         \* useState playbackMode: "pattern" | "song"
    countInBars,          \* useState countInBars
    quantizeSnapValue,    \* useState quantizeSnapValue
    isPlaying,            \* useState isPlaying
    isRecording,          \* useState isRecording (mirrored by isRecordingRef)
    isArmedForRecording,  \* useState isArmedForRecording
    isTransportTransitioning, \* useRef guard flag
    transportState,       \* Tone.Transport.state: "stopped" | "started"
    transportPos,         \* Tone.Transport position, in units of 1/UnitsPerStep step
    events,               \* callbacks registered with Tone.Transport.scheduleOnce
    ctxOffset,            \* audio-context time at which the transport started (position 0)
    recordingStartTime,   \* useRef recordingStartTime (0 = not recording)
    activeNotes,          \* useRef activeNotes: pitch -> note-on data
    recordedNotes,        \* useRef recordedNotesRef
    recCount,             \* history variable: number of accepted record requests so far
    audioNodes,           \* useRef audioNodes: the sample names that have a sampler
    scheduled,            \* sampler triggers issued for steps by the operation just performed
    currentStep,          \* useState currentStep (-1 = no step shown)
    draws,                \* callbacks registered with Tone.Draw.schedule, not yet run
    isExporting,          \* useState isExporting
    bpm,                  \* useState bpm
    swing,                \* useState swing, in 1/1000
    samplerVolume,        \* sampler.volume.value of each sampler of audioNodes
    samplers,             \* every Tone.Sampler made by loadSampler: its sample name and status
    sequence,             \* sequence.current: what its callback captured, when it starts
    channelParts,         \* channelParts.current: the undisposed Tone.Part objects per channel
    isAudioStarted,       \* useState isAudioStarted
    awaiting,             \* the handlers suspended at await startAudio()
    opCount,              \* history variable: number of setPatterns calls so far
    nextId,               \* source of fresh pattern ids (Date.now()/Math.random())
    armed,                \* history variable: what the last accepted record request cleared
    rt,                   \* history variable: the undo/redo round-trip scenario in progress
    lastOp                \* history variable: the handler that ran last, with its inputs

vars == << history, activePatternId, selectedChannelId, brushPatternId, playlist,
           playbackMode, countInBars, quantizeSnapValue, isPlaying, isRecording,
           isArmedForRecording, isTransportTransitioning, transportState,
           transportPos, events, ctxOffset, recordingStartTime, activeNotes,
           recordedNotes, recCount, audioNodes, scheduled, currentStep, draws,
           isExporting, bpm, swing, samplerVolume, samplers, sequence, channelParts,
           isAudioStarted,
           awaiting,
           opCount,
           nextId, armed, rt, lastOp >>

\* null / undefined / "no such element"
NoChannel == << >>
NoPattern == [ id |-> 0, length |-> 0, channels |-> << >> ]

(***************************************************************************)
(* Program constants                                                       *)
(***************************************************************************)
MAX_STEPS == 128
StepsPerBar == 16
NumTracks == 32
SongLengthBars == 72
UnitsPerStep == 20
LengthOptions == << 16, 32, 64, 128 >>
CountInOptions == << 0, 1, 2, 4 >>

(***************************************************************************)
(* Bounds of the model                                                     *)
(***************************************************************************)
NumChannels == 2
MaxPatterns == 2
MaxOps == 3
MaxStepIndex == 1
MaxLenIdx == 2
MaxTrack == 1
MaxBar == 2
MaxEntries == 2
MaxArrangeBars == 1
MaxVerses == 1
MaxStoreOps == 1
MaxCountInIdx == 2
MaxRecordings == 1
MaxNotes == 1
MaxTimeBars == 2
MaxTransportEdits == 2
MaxSongBar == 2
MaxSongEntries == 2
MaxSongUndos == 1
MaxLiveBar == 0
MaxResolveTrack == 0
MaxNoteStart == 250
MaxNoteDuration == 130

Lengths == { LengthOptions[i] : i \in 1..MaxLenIdx }
StepIndices == 0..MaxStepIndex

(***************************************************************************)
(* constants.ts: channels and patterns                                     *)
(***************************************************************************)
\* A steps array (number[]) is kept as its length and its non-zero entries:
\* [len |-> n, on |-> f] is the array of n numbers that has f[i] at each index
\* i in DOMAIN f and 0 at every other index below n.  No zero is ever stored
\* in on, so two arrays are equal exactly when their representations are.
Zeros(n) == [ len |-> n, on |-> [ i \in {} |-> 0 ] ]

\* steps[i], for 0 <= i < steps.length
StepAt(steps, i) == IF i \in DOMAIN steps.on THEN steps.on[i] ELSE 0

\* const newSteps = [...steps]; newSteps[i] = v, for 0 <= i < steps.length
SetAt(steps, i, v) ==
    LET d == (DOMAIN steps.on \ { i }) \cup (IF v # 0 THEN { i } ELSE {})
    IN [ steps EXCEPT !.on = [ j \in d |-> IF j = i THEN v ELSE steps.on[j] ] ]

\* [...steps, ...Array(diff).fill(0)]
PadZeros(steps, diff) == [ steps EXCEPT !.len = @ + diff ]

ChannelId(patternId, index) == << "ch", patternId, index >>

createFreshChannels(patternId) ==
    [ k \in 1..NumChannels |->
        [ id |-> ChannelId(patternId, k),
          sample |-> [ name |-> << "Channel", k >>, url |-> "" ],
          steps |-> Zeros(MAX_STEPS),
          notes |-> << >>,
          cutItself |-> (k = NumChannels),
          volume |-> 0,
          isMuted |-> FALSE,
          isSoloed |-> FALSE,
          isAudioClipChannel |-> FALSE ] ]

\* cloned: channelsToClone was given (currentActivePattern?.channels)
createNewPattern(patternId, cloned, channelsToClone) ==
    [ id |-> patternId,
      length |-> 16,
      channels |->
        IF ~cloned
        THEN createFreshChannels(patternId)
        ELSE [ k \in 1..Len(channelsToClone) |->
                 [ channelsToClone[k] EXCEPT
                     !.id = ChannelId(patternId, k),
                     !.steps = Zeros(channelsToClone[k].steps.len),
                     !.notes = << >> ] ] ]

createInitialPattern == [ id |-> 1, length |-> 16, channels |-> createFreshChannels(1) ]

initialPatterns == << createInitialPattern >>

(***************************************************************************)
(* Array helpers                                                           *)
(***************************************************************************)
Range(s) == { s[i] : i \in 1..Len(s) }

\* patterns.find(p => p.id === id): the first match, NoPattern (undefined)
\* when there is none
HasPattern(ps, id) == \E i \in 1..Len(ps) : ps[i].id = id

FindPattern(ps, id) ==
    IF HasPattern(ps, id)
    THEN ps[CHOOSE i \in 1..Len(ps) :
                     /\ ps[i].id = id
                     /\ \A j \in 1..(i - 1) : ps[j].id # id]
    ELSE NoPattern

\* patterns.map(p => p.id !== patternId ? p : {...p, channels: p.channels.map(f)})
MapChannelsOf(ps, patternId, f(_)) ==
    [ i \in 1..Len(ps) |->
        IF ps[i].id # patternId THEN ps[i]
        ELSE [ ps[i] EXCEPT !.channels =
                 [ k \in 1..Len(ps[i].channels) |-> f(ps[i].channels[k]) ] ] ]

HasChannel(ps, patternId, channelId) ==
    \E i \in 1..Len(ps) :
        /\ ps[i].id = patternId
        /\ \E k \in 1..Len(ps[i].channels) : ps[i].channels[k].id = channelId

(***************************************************************************)
(* useHistory                                                              *)
(***************************************************************************)
\* JSON.stringify(a) === JSON.stringify(b).  The modelled values are arrays
\* and objects of finite numbers, strings and booleans with a fixed key
\* order, on which JSON.stringify is injective.
JsonEqual(a, b) == a = b

\* set() without the equality test: every call is pushed
HistorySetAlwaysPushes(h, newPresentValue) ==
    [ past |-> Append(h.past, h.present),
      present |-> newPresentValue,
      future |-> << >> ]

HistorySet(h, newPresentValue) ==
    IF JsonEqual(newPresentValue, h.present)
    THEN h
    ELSE [ past |-> Append(h.past, h.present),
           present |-> newPresentValue,
           future |-> << >> ]

\* undo() that forgets the state it leaves
HistoryUndoDropsPresent(h) ==
    IF Len(h.past) = 0
    THEN h
    ELSE [ past |-> SubSeq(h.past, 1, Len(h.past) - 1),
           present |-> h.past[Len(h.past)],
           future |-> h.future ]

HistoryUndo(h) ==
    IF Len(h.past) = 0
    THEN h
    ELSE [ past |-> SubSeq(h.past, 1, Len(h.past) - 1),
           present |-> h.past[Len(h.past)],
           future |-> << h.present >> \o h.future ]

HistoryRedo(h) ==
    IF Len(h.future) = 0
    THEN h
    ELSE [ past |-> Append(h.past, h.present),
           present |-> h.future[1],
           future |-> SubSeq(h.future, 2, Len(h.future)) ]

patterns == history.present

\* const activePattern = patterns.find(p => p.id === activePatternId) ?? patterns[0]
activePattern ==
    IF HasPattern(patterns, activePatternId)
    THEN FindPattern(patterns, activePatternId)
    ELSE patterns[1]

(***************************************************************************)
(* History variables used to state the properties                          *)
(***************************************************************************)
\* handlers that no property looks at leave no more than this
Other == [ name |-> "other" ]

NotArmed == [ on |-> FALSE, patternId |-> 0, channelId |-> NoChannel, found |-> FALSE,
              stopAt |-> 0 ]

RtIdle == [ phase |-> "idle", base |-> << >>, top |-> << >>,
            nAll |-> 0, nEff |-> 0, undos |-> 0, redos |-> 0 ]

\* a call of the history set operation: it continues the sequence of
\* mutations in progress, or (start) is taken as the first of a new one
RtAfterSet(start, newPresentValue) ==
    LET one == IF JsonEqual(newPresentValue, history.present) THEN 0 ELSE 1 IN
    IF rt.phase = "mut"
    THEN [ rt EXCEPT !.nAll = @ + 1, !.nEff = @ + one ]
    ELSE IF start
         THEN [ phase |-> "mut", base |-> history.present, top |-> << >>,
                nAll |-> 1, nEff |-> one, undos |-> 0, redos |-> 0 ]
         ELSE RtIdle

RtAfterUndo ==
    IF rt.phase = "mut"
    THEN [ rt EXCEPT !.phase = "undo", !.top = history.present, !.undos = 1 ]
    ELSE IF rt.phase = "undo" /\ rt.undos < rt.nAll
         THEN [ rt EXCEPT !.undos = @ + 1 ]
         ELSE RtIdle

RtAfterRedo ==
    IF rt.phase = "undo"
    THEN [ rt EXCEPT !.phase = "redo", !.redos = 1 ]
    ELSE IF rt.phase = "redo" /\ rt.redos < rt.undos
         THEN [ rt EXCEPT !.redos = @ + 1 ]
         ELSE RtIdle

(***************************************************************************)
(* Groups of variables                                                     *)
(***************************************************************************)
flagVars == << isPlaying, isRecording, isArmedForRecording, isTransportTransitioning >>
clockVars == << transportState, transportPos, events, ctxOffset >>
captureVars == << recordingStartTime, activeNotes, recordedNotes, recCount, armed >>
settingVars == << playbackMode, countInBars, quantizeSnapValue, audioNodes >>
songVars == << playlist, brushPatternId >>
miscVars == << draws, isExporting, bpm, swing >>
audioVars == << isAudioStarted, awaiting >>

\* await startAudio() with nothing else running before it returns:
\* if (isAudioStarted) return; await Tone.start(); setIsAudioStarted(true)
startAudio == isAudioStarted' = TRUE /\ UNCHANGED awaiting

(***************************************************************************)
(* The effect on [patterns]: it sets the volume of the samplers from the   *)
(* mute and solo flags of the channels of the first pattern. It runs when  *)
(* the render has a new patterns value; a sampler made by the handler is   *)
(* registered when its sample has loaded, after the effect has run.        *)
(***************************************************************************)
Gain(volume) == [ silent |-> FALSE, volume |-> volume ]
MinusInfinity == [ silent |-> TRUE, volume |-> 0 ]

\* new Tone.Sampler(...): volume 0
NewSamplers(nodes) == [ name \in nodes |-> Gain(0) ]

TargetVolume(masterChannels, channel) ==
    LET isAnySoloed == \E k \in 1..Len(masterChannels) : masterChannels[k].isSoloed
        shouldPlay == IF isAnySoloed THEN channel.isSoloed ELSE ~channel.isMuted
    IN IF shouldPlay THEN Gain(channel.volume) ELSE MinusInfinity

\* masterChannels.forEach: the last channel that has the sample sets the volume
MuteSoloEffect(ps, volumes) ==
    IF Len(ps) = 0 THEN volumes
    ELSE LET masterChannels == ps[1].channels IN
         [ name \in DOMAIN volumes |->
             LET writers == { k \in 1..Len(masterChannels) :
                                /\ ~masterChannels[k].isAudioClipChannel
                                /\ masterChannels[k].sample.name = name }
             IN IF writers = {} THEN volumes[name]
                ELSE TargetVolume(masterChannels,
                                  masterChannels[CHOOSE k \in writers :
                                                    \A j \in writers : j <= k]) ]

AfterRender ==
    LET set == IF history'.present = history.present THEN samplerVolume
               ELSE MuteSoloEffect(history'.present, samplerVolume)
    IN [ name \in audioNodes' |->
           IF name \in DOMAIN set THEN set[name] ELSE Gain(0) ]

(***************************************************************************)
(* The samplers loadSampler has made and nothing has disposed. A sampler   *)
(* is "loading" until its onload runs, "registered" while audioNodes holds *)
(* it under its sample name, and "replaced" once another sampler was set   *)
(* under that name; disposeAllNodes disposes the registered ones.          *)
(***************************************************************************)
Sampler(id, name, status) == [ id |-> id, name |-> name, status |-> status ]

\* one more sampler for the sample name
NewSampler(made, name, status) ==
    LET n == CHOOSE n \in 1..(Cardinality(made) + 1) : \A i \in made : i.id # << n, name >>
    IN Sampler(<< n, name >>, name, status)

\* audioNodes holds the registered samplers
RegisteredSamplers(nodes) == { Sampler(<< 0, name >>, name, "registered") : name \in nodes }

\* the samplers after a handler in which each load has completed at once
SamplersFollow ==
    samplers \cup { NewSampler(samplers, name, "registered") :
                      name \in audioNodes' \ audioNodes }

(***************************************************************************)
(* The effect on [playbackMode, structuralDataString, activePatternId,     *)
(* patternLength]: it disposes sequence.current and makes a new sequence.  *)
(* The callback of pattern mode closes over the active pattern the effect  *)
(* found in patternsRef, the callback of song mode reads the refs itself.  *)
(***************************************************************************)
\* a sequence nothing has started
NotStarted == -1

StructuralData(ps, pl) ==
    [ patterns |-> [ i \in 1..Len(ps) |->
                       [ id |-> ps[i].id, length |-> ps[i].length,
                         channels |-> [ k \in 1..Len(ps[i].channels) |->
                                          [ id |-> ps[i].channels[k].id,
                                            steps |-> ps[i].channels[k].steps,
                                            notes |-> ps[i].channels[k].notes ] ] ] ],
      playlist |-> pl ]

structuralDataString == StructuralData(patterns, playlist)

patternLength == IF Len(patterns) = 0 THEN 0 ELSE activePattern.length

SequenceDeps == << playbackMode, structuralDataString, activePatternId, patternLength >>

\* sequence.current.dispose() of the sequence the ref holds
DisposePrevious(undisposed) == IF undisposed > 0 THEN undisposed - 1 ELSE 0

\* an effect that makes the new sequence without disposing the previous one
SequenceEffectKeepsPrevious(mode, ps, active, wasPlaying) ==
    IF mode = "pattern" /\ ~HasPattern(ps, active)
    THEN [ kind |-> "disposed", pattern |-> NoPattern, start |-> NotStarted, resumed |-> FALSE,
           undisposed |-> sequence.undisposed ]
    ELSE [ kind |-> mode,
           pattern |-> IF mode = "pattern" THEN FindPattern(ps, active) ELSE NoPattern,
           start |-> IF wasPlaying THEN 0 ELSE NotStarted,
           resumed |-> wasPlaying,
           undisposed |-> sequence.undisposed + 1 ]

\* the effect's run: the previous sequence is disposed, the new one made and
\* sequence.current.start(0, currentPosition) called if wasPlaying (start is
\* the transport time of the start, resumed tells the start from the current
\* position apart from a start from the first step);
\* undisposed counts the Tone.Sequence objects made and not disposed
SequenceEffect(mode, ps, active, wasPlaying) ==
    IF mode = "pattern" /\ ~HasPattern(ps, active)
    THEN [ kind |-> "disposed", pattern |-> NoPattern, start |-> NotStarted, resumed |-> FALSE,
           undisposed |-> DisposePrevious(sequence.undisposed) ]
    ELSE [ kind |-> mode,
           pattern |-> IF mode = "pattern" THEN FindPattern(ps, active) ELSE NoPattern,
           start |-> IF wasPlaying THEN 0 ELSE NotStarted,
           resumed |-> wasPlaying,
           undisposed |-> DisposePrevious(sequence.undisposed) + 1 ]

\* the sequence of the first render: there is no previous one
FirstSequence(mode, ps, active, wasPlaying) ==
    [ kind |-> IF mode = "pattern" /\ ~HasPattern(ps, active) THEN "disposed" ELSE mode,
      pattern |-> IF mode = "pattern" /\ HasPattern(ps, active)
                  THEN FindPattern(ps, active) ELSE NoPattern,
      start |-> IF wasPlaying /\ ~(mode = "pattern" /\ ~HasPattern(ps, active))
                THEN 0 ELSE NotStarted,
      resumed |-> FALSE,
      undisposed |-> IF mode = "pattern" /\ ~HasPattern(ps, active) THEN 0 ELSE 1 ]

\* sequence.current after a handler that left it to start at `start`, and
\* after the effect if the render changed one of its dependencies
SequenceAfter(start) ==
    IF /\ ~(history' = history /\ playlist' = playlist /\ playbackMode' = playbackMode
                /\ activePatternId' = activePatternId)
       /\ SequenceDeps' # SequenceDeps
    THEN SequenceEffect(playbackMode', patterns', activePatternId',
                        transportState' = "started")
    ELSE [ sequence EXCEPT !.start = start,
                           !.resumed = IF start = sequence.start THEN @ ELSE FALSE ]

\* after a handler that makes no call on sequence.current
SequenceFollows == SequenceAfter(sequence.start)

(***************************************************************************)
(* The effect on [activePattern, playbackMode, bpm]: it disposes every     *)
(* part of channelParts.current and, in pattern mode, makes a part for     *)
(* each channel of the active pattern with notes and a loaded sampler.     *)
(***************************************************************************)
PartsDeps == << IF Len(patterns) = 0 THEN NoPattern ELSE activePattern, playbackMode, bpm >>

\* the number of undisposed parts of each channel that has one
PartsEffect(mode, pattern, nodes) ==
    IF pattern = NoPattern \/ mode # "pattern" THEN << >>
    ELSE [ channelId \in { pattern.channels[k].id :
                             k \in { q \in 1..Len(pattern.channels) :
                                       /\ Len(pattern.channels[q].notes) > 0
                                       /\ pattern.channels[q].sample.name \in nodes } } |-> 1 ]

\* channelParts.current after a handler that left `kept` in it, and after
\* the effect if the render changed one of its dependencies
PartsAfter(kept) ==
    IF /\ ~(history' = history /\ playbackMode' = playbackMode /\ bpm' = bpm
                /\ activePatternId' = activePatternId)
       /\ PartsDeps' # PartsDeps
    THEN PartsEffect(playbackMode', PartsDeps'[1], audioNodes')
    ELSE kept

PartsFollow == PartsAfter(channelParts)

(***************************************************************************)
(* Pattern store handlers (App.tsx): the value each passes to setPatterns  *)
(***************************************************************************)
\* the cycle closed through 0
NextStepValueThroughZero(currentStepValue) ==
    CASE currentStepValue = 0 -> 1
      [] currentStepValue = 1 -> 2
      [] currentStepValue = 2 -> 4
      [] currentStepValue = 4 -> 3
      [] currentStepValue = 3 -> 0
      [] OTHER -> 1

NextStepValue(currentStepValue) ==
    CASE currentStepValue = 0 -> 1
      [] currentStepValue = 1 -> 2
      [] currentStepValue = 2 -> 4
      [] currentStepValue = 4 -> 3
      [] currentStepValue = 3 -> 1
      [] OTHER -> 1

StepToggleValue(ps, patternId, channelId, stepIndex) ==
    LET f(ch) == IF ch.id # channelId THEN ch
                 ELSE [ ch EXCEPT !.steps =
                          SetAt(ch.steps, stepIndex, NextStepValue(StepAt(ch.steps, stepIndex))) ]
    IN MapChannelsOf(ps, patternId, f)

StepSubdivideValue(ps, patternId, channelId, stepIndex) ==
    LET f(ch) == IF ch.id # channelId THEN ch
                 ELSE [ ch EXCEPT !.steps = SetAt(ch.steps, stepIndex, 0) ]
    IN MapChannelsOf(ps, patternId, f)

ClearPatternValue(ps, patternId) ==
    LET f(ch) == [ ch EXCEPT !.steps = Zeros(ch.steps.len), !.notes = << >> ]
    IN MapChannelsOf(ps, patternId, f)

UpdateChannelNotesValue(ps, patternId, channelId, notes) ==
    LET f(ch) == IF ch.id = channelId
                 THEN [ ch EXCEPT !.notes = notes, !.steps = Zeros(ch.steps.len) ]
                 ELSE ch
    IN MapChannelsOf(ps, patternId, f)

PatternLengthChangeValue(ps, patternId, newLength) ==
    [ i \in 1..Len(ps) |->
        IF ps[i].id # patternId THEN ps[i]
        ELSE [ ps[i] EXCEPT
                 !.length = newLength,
                 !.channels =
                    [ k \in 1..Len(ps[i].channels) |->
                        LET channel == ps[i].channels[k] IN
                        IF channel.isAudioClipChannel THEN channel
                        ELSE IF channel.steps.len < newLength
                             THEN [ channel EXCEPT !.steps =
                                      PadZeros(channel.steps, newLength - channel.steps.len) ]
                             ELSE channel ] ] ]

\* every channel id the UI can hand to a handler: the rows of the displayed
\* pattern (activePattern) and the current selection
ChannelIds == { activePattern.channels[k].id : k \in 1..Len(activePattern.channels) }
                 \cup ({ selectedChannelId } \ { NoChannel })


\* the part common to every handler whose only effect is one setPatterns call
Mutate(name, newPresentValue, start) ==
    /\ opCount < MaxOps
    /\ opCount' = opCount + 1
    /\ history' = HistorySet(history, newPresentValue)
    /\ rt' = RtAfterSet(start, newPresentValue)
    /\ lastOp' = [ name |-> name, value |-> newPresentValue,
                   changed |-> ~JsonEqual(newPresentValue, history.present) ]

handleStepToggle(channelId, stepIndex, start) ==
    /\ Mutate("handleStepToggle",
              StepToggleValue(patterns, activePatternId, channelId, stepIndex), start)
    /\ scheduled' = {}
    /\ UNCHANGED << currentStep, miscVars >>
    /\ UNCHANGED << activePatternId, selectedChannelId, nextId >>
    /\ UNCHANGED << flagVars, clockVars, captureVars, settingVars, songVars >>
    /\ samplerVolume' = AfterRender
    /\ samplers' = SamplersFollow
    /\ sequence' = SequenceFollows
    /\ channelParts' = PartsFollow
    /\ startAudio

handleStepSubdivide(channelId, stepIndex, start) ==
    /\ Mutate("handleStepSubdivide",
              StepSubdivideValue(patterns, activePatternId, channelId, stepIndex), start)
    /\ scheduled' = {}
    /\ UNCHANGED << currentStep, miscVars >>
    /\ UNCHANGED << activePatternId, selectedChannelId, nextId >>
    /\ UNCHANGED << flagVars, clockVars, captureVars, settingVars, songVars >>
    /\ samplerVolume' = AfterRender
    /\ samplers' = SamplersFollow
    /\ sequence' = SequenceFollows
    /\ channelParts' = PartsFollow
    /\ UNCHANGED audioVars

handleClearPattern(start) ==
    /\ Mutate("handleClearPattern", ClearPatternValue(patterns, activePatternId), start)
    /\ scheduled' = {}
    /\ UNCHANGED << currentStep, miscVars >>
    /\ UNCHANGED << activePatternId, selectedChannelId, nextId >>
    /\ UNCHANGED << flagVars, clockVars, captureVars, settingVars, songVars >>
    /\ samplerVolume' = AfterRender
    /\ samplers' = SamplersFollow
    /\ sequence' = SequenceFollows
    /\ channelParts' = PartsFollow
    /\ UNCHANGED audioVars

handlePatternLengthChange(newLength, start) ==
    /\ Mutate("handlePatternLengthChange",
              PatternLengthChangeValue(patterns, activePatternId, newLength), start)
    /\ scheduled' = {}
    /\ UNCHANGED << currentStep, miscVars >>
    /\ UNCHANGED << activePatternId, selectedChannelId, nextId >>
    /\ UNCHANGED << flagVars, clockVars, captureVars, settingVars, songVars >>
    /\ samplerVolume' = AfterRender
    /\ samplers' = SamplersFollow
    /\ sequence' = SequenceFollows
    /\ channelParts' = PartsFollow
    /\ UNCHANGED audioVars

handleAddPattern(start) ==
    /\ nextId <= MaxPatterns
    /\ LET currentActivePattern == FindPattern(patterns, activePatternId)
           newPattern == createNewPattern(nextId, HasPattern(patterns, activePatternId),
                                          currentActivePattern.channels)
       IN /\ Mutate("handleAddPattern", Append(patterns, newPattern), start)
          /\ activePatternId' = newPattern.id
    /\ nextId' = nextId + 1
    /\ scheduled' = {}
    /\ UNCHANGED << currentStep, miscVars >>
    /\ UNCHANGED << selectedChannelId >>
    /\ UNCHANGED << flagVars, clockVars, captureVars, settingVars, songVars >>
    /\ samplerVolume' = AfterRender
    /\ samplers' = SamplersFollow
    /\ sequence' = SequenceFollows
    /\ channelParts' = PartsFollow
    /\ UNCHANGED audioVars

undoPatterns ==
    /\ history' = HistoryUndo(history)
    /\ rt' = RtAfterUndo
    /\ lastOp' = [ name |-> "undo" ]
    /\ scheduled' = {}
    /\ UNCHANGED << currentStep, miscVars >>
    /\ UNCHANGED << activePatternId, selectedChannelId, nextId, opCount >>
    /\ UNCHANGED << flagVars, clockVars, captureVars, settingVars, songVars >>
    /\ samplerVolume' = AfterRender
    /\ samplers' = SamplersFollow
    /\ sequence' = SequenceFollows
    /\ channelParts' = PartsFollow
    /\ UNCHANGED audioVars

redoPatterns ==
    /\ history' = HistoryRedo(history)
    /\ rt' = RtAfterRedo
    /\ lastOp' = [ name |-> "redo" ]
    /\ scheduled' = {}
    /\ UNCHANGED << currentStep, miscVars >>
    /\ UNCHANGED << activePatternId, selectedChannelId, nextId, opCount >>
    /\ UNCHANGED << flagVars, clockVars, captureVars, settingVars, songVars >>
    /\ samplerVolume' = AfterRender
    /\ samplers' = SamplersFollow
    /\ sequence' = SequenceFollows
    /\ channelParts' = PartsFollow
    /\ UNCHANGED audioVars

\* onPatternSelect={setActivePatternId}: the options are the patterns of the store
PatternSelect(id) ==
    /\ activePatternId' = id
    /\ rt' = RtIdle
    /\ lastOp' = Other
    /\ scheduled' = {}
    /\ UNCHANGED << currentStep, miscVars >>
    /\ UNCHANGED << history, selectedChannelId, nextId, opCount >>
    /\ UNCHANGED << flagVars, clockVars, captureVars, settingVars, songVars >>
    /\ samplerVolume' = AfterRender
    /\ samplers' = SamplersFollow
    /\ sequence' = SequenceFollows
    /\ channelParts' = PartsFollow
    /\ UNCHANGED audioVars

\* onSelect={setSelectedChannelId}: the rows are the channels of activePattern
ChannelSelect(channelId) ==
    /\ selectedChannelId' = channelId
    /\ rt' = RtIdle
    /\ lastOp' = Other
    /\ scheduled' = {}
    /\ UNCHANGED << currentStep, miscVars >>
    /\ UNCHANGED << history, activePatternId, nextId, opCount >>
    /\ UNCHANGED << flagVars, clockVars, captureVars, settingVars, songVars >>
    /\ samplerVolume' = AfterRender
    /\ samplers' = SamplersFollow
    /\ sequence' = SequenceFollows
    /\ channelParts' = PartsFollow
    /\ UNCHANGED audioVars

(***************************************************************************)
(* Playlist keys: `${track}:${bar}` and key.split(':').map(Number)         *)
(***************************************************************************)
DigitChars == << "0", "1", "2", "3", "4", "5", "6", "7", "8", "9" >>

RECURSIVE NumberToString(_)
NumberToString(n) ==
    IF n < 10 THEN << DigitChars[n + 1] >>
    ELSE NumberToString(n \div 10) \o << DigitChars[(n % 10) + 1] >>

DigitValue(c) == (CHOOSE d \in 1..10 : DigitChars[d] = c) - 1

RECURSIVE StringToNumber(_)
StringToNumber(chars) ==
    IF Len(chars) = 1 THEN DigitValue(chars[1])
    ELSE 10 * StringToNumber(SubSeq(chars, 1, Len(chars) - 1))
            + DigitValue(chars[Len(chars)])

\* `${track}:${bar}`
FormatKey(track, bar) == NumberToString(track) \o << ":" >> \o NumberToString(bar)

\* the keys of the cells of the song grid, formatted once
GridKeys ==
    [ track \in 0..(NumTracks - 1) |->
        [ bar \in 0..(SongLengthBars - 1) |-> FormatKey(track, bar) ] ]

PlaylistKey(track, bar) ==
    IF track \in 0..(NumTracks - 1) /\ bar \in 0..(SongLengthBars - 1)
    THEN GridKeys[track][bar]
    ELSE FormatKey(track, bar)

ColonAt(key) == CHOOSE i \in 1..Len(key) : key[i] = ":"
KeyTrack(key) == StringToNumber(SubSeq(key, 1, ColonAt(key) - 1))
KeyBar(key) == StringToNumber(SubSeq(key, ColonAt(key) + 1, Len(key)))

EmptyPlaylist == [ key \in {} |-> 0 ]

\* new Map(playlist) after delete(k) for each k in removed, then set(newKey, id)
MapDeleteSet(pl, removed, newKey, id) ==
    [ key \in (DOMAIN pl \ removed) \cup { newKey } |->
        IF key = newKey THEN id ELSE pl[key] ]

MapDelete(pl, removed) == [ key \in DOMAIN pl \ removed |-> pl[key] ]

(***************************************************************************)
(* SongMode: handleGridClick, handleGridContextMenu, handleArrange         *)
(* Bars are compared in 16ths (bar * 16, length) so that length / 16       *)
(* needs no fractions.                                                     *)
(***************************************************************************)
\* the overlap test of every track, not only the clicked one
GridClickRemovedAnyTrack(pl, ps, brushId, track, bar) ==
    { key \in DOMAIN pl :
        /\ HasPattern(ps, pl[key])
        /\ bar * StepsPerBar < KeyBar(key) * StepsPerBar + FindPattern(ps, pl[key]).length
        /\ bar * StepsPerBar + FindPattern(ps, brushId).length > KeyBar(key) * StepsPerBar }

GridClickRemoved(pl, ps, brushId, track, bar) ==
    { key \in DOMAIN pl :
        /\ KeyTrack(key) = track
        /\ HasPattern(ps, pl[key])
        /\ bar * StepsPerBar < KeyBar(key) * StepsPerBar + FindPattern(ps, pl[key]).length
        /\ bar * StepsPerBar + FindPattern(ps, brushId).length > KeyBar(key) * StepsPerBar }

GridClickValue(pl, ps, brushId, track, bar) ==
    IF ~HasPattern(ps, brushId) THEN pl
    ELSE MapDeleteSet(pl, GridClickRemoved(pl, ps, brushId, track, bar),
                      PlaylistKey(track, bar), brushId)

handleGridClick(track, bar) ==
    /\ Cardinality(DOMAIN GridClickValue(playlist, patterns, brushPatternId, track, bar))
          <= MaxEntries
    /\ playlist' = GridClickValue(playlist, patterns, brushPatternId, track, bar)
    /\ rt' = RtIdle
    /\ lastOp' = [ name |-> "handleGridClick", track |-> track, bar |-> bar,
                   removed |-> GridClickRemoved(playlist, patterns, brushPatternId,
                                                track, bar) ]
    /\ scheduled' = {}
    /\ UNCHANGED << currentStep, miscVars >>
    /\ UNCHANGED << history, activePatternId, selectedChannelId, brushPatternId,
                    nextId, opCount >>
    /\ UNCHANGED << flagVars, clockVars, captureVars, settingVars >>
    /\ samplerVolume' = AfterRender
    /\ samplers' = SamplersFollow
    /\ sequence' = SequenceFollows
    /\ channelParts' = PartsFollow
    /\ UNCHANGED audioVars

handleGridContextMenu(track, bar) ==
    /\ playlist' = IF PlaylistKey(track, bar) \in DOMAIN playlist
                   THEN MapDelete(playlist, { PlaylistKey(track, bar) })
                   ELSE playlist
    /\ rt' = RtIdle
    /\ lastOp' = Other
    /\ scheduled' = {}
    /\ UNCHANGED << currentStep, miscVars >>
    /\ UNCHANGED << history, activePatternId, selectedChannelId, brushPatternId,
                    nextId, opCount >>
    /\ UNCHANGED << flagVars, clockVars, captureVars, settingVars >>
    /\ samplerVolume' = AfterRender
    /\ samplers' = SamplersFollow
    /\ sequence' = SequenceFollows
    /\ channelParts' = PartsFollow
    /\ UNCHANGED audioVars

\* placePatternMultiple(patternId, targetBars) on the accumulator
\* acc = [pl |-> newPlaylist, bar |-> currentBar]; target16 = targetBars * 16
\* (targetBars may be a half: verseBars / 2)
CeilDiv(a, b) == (a + b - 1) \div b

RECURSIVE PlaceRepeat(_, _, _, _)
PlaceRepeat(acc, patternId, lengthInBars, repeatCount) ==
    IF repeatCount = 0 THEN acc
    ELSE PlaceRepeat([ pl |-> MapDeleteSet(acc.pl, {}, PlaylistKey(0, acc.bar), patternId),
                       bar |-> acc.bar + lengthInBars ],
                     patternId, lengthInBars, repeatCount - 1)

placePatternMultiple(acc, ps, patternId, target16) ==
    IF target16 <= 0 THEN acc
    ELSE IF ~HasPattern(ps, patternId) \/ FindPattern(ps, patternId).length = 0 THEN acc
    ELSE PlaceRepeat(acc, patternId, FindPattern(ps, patternId).length \div StepsPerBar,
                     CeilDiv(target16, FindPattern(ps, patternId).length))

RECURSIVE ArrangeVerses(_, _, _, _)
ArrangeVerses(acc, ps, o, i) ==
    IF i = 0 THEN acc
    ELSE LET afterChorus == placePatternMultiple(acc, ps, o.chorusPatternId,
                                                 o.chorusBars * StepsPerBar)
             afterVerse ==
                IF o.useBridge
                THEN placePatternMultiple(
                        placePatternMultiple(afterChorus, ps, o.versePatternId,
                                             (o.verseBars * StepsPerBar) \div 2),
                        ps, o.bridgePatternId, (o.verseBars * StepsPerBar) \div 2)
                ELSE placePatternMultiple(afterChorus, ps, o.versePatternId,
                                          o.verseBars * StepsPerBar)
         IN ArrangeVerses(afterVerse, ps, o, i - 1)

ArrangeValue(ps, o) ==
    LET afterIntro == placePatternMultiple([ pl |-> EmptyPlaylist, bar |-> 0 ], ps,
                                           o.introPatternId, o.introBars * StepsPerBar)
        afterVerses == ArrangeVerses(afterIntro, ps, o, o.numVerses)
        afterFinal == placePatternMultiple(afterVerses, ps, o.chorusPatternId,
                                           o.chorusBars * StepsPerBar)
        afterOutro == IF o.useOutro
                      THEN placePatternMultiple(afterFinal, ps, o.outroPatternId,
                                                o.introBars * StepsPerBar)
                      ELSE afterFinal
    IN afterOutro.pl

\* the options AutoArrangeModal.handleSubmit hands over: the pattern ids come
\* from the <select> of the store's patterns
ArrangementOptions ==
    LET ids == { patterns[i].id : i \in 1..Len(patterns) } IN
    { [ introPatternId |-> a, chorusPatternId |-> b, versePatternId |-> a,
        numVerses |-> n, useBridge |-> u, bridgePatternId |-> b,
        introBars |-> bars, verseBars |-> bars, chorusBars |-> bars,
        useOutro |-> u, outroPatternId |-> b ] :
      a \in ids, b \in ids, n \in 0..MaxVerses, u \in BOOLEAN, bars \in 1..MaxArrangeBars }

handleArrange(options) ==
    /\ playlist' = ArrangeValue(patterns, options)
    /\ rt' = RtIdle
    /\ lastOp' = [ name |-> "handleArrange" ]
    /\ scheduled' = {}
    /\ UNCHANGED << currentStep, miscVars >>
    /\ UNCHANGED << history, activePatternId, selectedChannelId, brushPatternId,
                    nextId, opCount >>
    /\ UNCHANGED << flagVars, clockVars, captureVars, settingVars >>
    /\ samplerVolume' = AfterRender
    /\ samplers' = SamplersFollow
    /\ sequence' = SequenceFollows
    /\ channelParts' = PartsFollow
    /\ UNCHANGED audioVars

\* onBrushPatternIdChange={setBrushPatternId}
BrushSelect(id) ==
    /\ brushPatternId' = id
    /\ rt' = RtIdle
    /\ lastOp' = Other
    /\ scheduled' = {}
    /\ UNCHANGED << currentStep, miscVars >>
    /\ UNCHANGED << history, activePatternId, selectedChannelId, playlist,
                    nextId, opCount >>
    /\ UNCHANGED << flagVars, clockVars, captureVars, settingVars >>
    /\ samplerVolume' = AfterRender
    /\ samplers' = SamplersFollow
    /\ sequence' = SequenceFollows
    /\ channelParts' = PartsFollow
    /\ UNCHANGED audioVars

(***************************************************************************)
(* Time. One unit is 1/UnitsPerStep of a 16th step; a bar is 16 steps.     *)
(* Tone.Transport keeps its events in ticks, so the tempo does not enter.  *)
(***************************************************************************)
UnitsPerBar == StepsPerBar * UnitsPerStep
MaxTime == MaxTimeBars * UnitsPerBar
AdvanceSizes == { UnitsPerBar \div 2 }
\* Transport.start() starts the clock at the context's now(), which is > 0
CtxOffsets == { (3 * UnitsPerStep) \div 2, UnitsPerBar + UnitsPerStep }
CountIns == { CountInOptions[i] : i \in 1..MaxCountInIdx }
SnapValues == { "None", "1/8" }
Pitches == { 60 }
Velocities == { 100 }

Max(a, b) == IF a >= b THEN a ELSE b

\* Math.trunc(a / b) for b > 0
RoundDivTruncates(a, b) == a \div b

\* Math.round(a / b) for b > 0
RoundDiv(a, b) == (2 * a + b) \div (2 * b)

\* in units: 0.5 and 0.25 of a step are UnitsPerStep/2 and UnitsPerStep/4
getSnapStepFromQuantizeValue(snap) ==
    CASE snap = "1/2" -> 8 * UnitsPerStep
      [] snap = "1/4" -> 4 * UnitsPerStep
      [] snap = "1/8" -> 2 * UnitsPerStep
      [] snap = "1/16" -> UnitsPerStep
      [] snap = "1/32" -> UnitsPerStep \div 2
      [] snap = "1/64" -> UnitsPerStep \div 4
      [] OTHER -> 0

quantizeNotes(notes, snapValue) ==
    LET snapStep == getSnapStepFromQuantizeValue(snapValue) IN
    IF snapStep = 0 THEN notes
    ELSE [ i \in 1..Len(notes) |->
            [ notes[i] EXCEPT
                !.start = RoundDiv(notes[i].start, snapStep) * snapStep,
                !.duration = Max(snapStep,
                                 RoundDiv(notes[i].duration, snapStep) * snapStep) ] ]

\* Math.max(0.1, ...) of a step
MinDuration == UnitsPerStep \div 10

(***************************************************************************)
(* The effect on [isPlaying, isRecording, isArmedForRecording]: it unlocks *)
(* the transport when the render after the handler changed one of them.    *)
(***************************************************************************)
\* a guard that never holds a request back
TransportNeverLocked == FALSE

\* if (isTransportTransitioning.current) return;
TransportLocked == isTransportTransitioning

EffectUnlock(lockedByHandler) ==
    isTransportTransitioning' =
        IF << isPlaying', isRecording', isArmedForRecording' >>
              # << isPlaying, isRecording, isArmedForRecording >>
        THEN FALSE
        ELSE lockedByHandler

(***************************************************************************)
(* stopPlayback, as the closure that captured selectedChannelId = channelId *)
(***************************************************************************)
\* activeNotes.forEach: the notes still held, closed at the stop
HeldNotes(stopStep) ==
    [ i \in 1..Len(activeNotes) |->
        [ id |-> << "note", activeNotes[i].pitch >>,
          pitch |-> activeNotes[i].pitch,
          start |-> activeNotes[i].startTime,
          duration |-> Max(MinDuration, stopStep - activeNotes[i].startTime),
          velocity |-> activeNotes[i].velocity ] ]

\* now = Tone.Transport.seconds when stopPlayback is entered
FinalNotes(now) ==
    LET stopStep == now - recordingStartTime
        all == recordedNotes \o HeldNotes(stopStep)
    IN IF quantizeSnapValue # "None" THEN quantizeNotes(all, quantizeSnapValue) ELSE all

\* writes to the pattern of activePatternIdRef.current, not of the arming
WriteNotesValue(ps, patternId, channelId, finalNotes) ==
    LET write(c) == IF c.id = channelId THEN [ c EXCEPT !.notes = finalNotes ] ELSE c
    IN MapChannelsOf(ps, patternId, write)

StopPlaybackHistory(h, channelId, now) ==
    IF isRecording /\ channelId # NoChannel /\ Len(FinalNotes(now)) > 0
    THEN HistorySet(h, WriteNotesValue(h.present, activePatternId, channelId,
                                       FinalNotes(now)))
    ELSE h

stopPlayback(channelId, now) ==
    /\ IF transportState # "stopped"
       THEN transportState' = "stopped" /\ transportPos' = 0 /\ events' = {}
                /\ ctxOffset' = 0
       ELSE UNCHANGED << transportState, transportPos, events, ctxOffset >>
    /\ history' = StopPlaybackHistory(history, channelId, now)
    /\ isPlaying' = FALSE
    /\ isRecording' = FALSE
    /\ isArmedForRecording' = FALSE
    /\ currentStep' = -1
    /\ activeNotes' = << >>
    /\ recordedNotes' = << >>
    /\ recordingStartTime' = 0
    /\ armed' = NotArmed
    /\ UNCHANGED recCount

\* what a stop leaves in lastOp for the properties: what had been captured
\* and where the arming had pointed
StopRecord(name, channelId, now) ==
    [ name |-> name, wasRecording |-> isRecording, channelId |-> channelId,
      captured |-> IF isRecording THEN FinalNotes(now) ELSE << >>,
      armed |-> armed, before |-> patterns ]

(***************************************************************************)
(* togglePlay (play button, space bar)                                     *)
(***************************************************************************)
\* togglePlay from the line after await startAudio()
togglePlayAfterAwait ==
    /\ IF transportState = "started"
       THEN /\ stopPlayback(selectedChannelId, transportPos)
            /\ lastOp' = StopRecord("togglePlay.stop", selectedChannelId, transportPos)
       ELSE /\ transportState' = "started"
            /\ transportPos' = 0
            /\ events' = {}
            /\ \E o \in CtxOffsets : ctxOffset' = o
            /\ isPlaying' = TRUE
            /\ lastOp' = [ name |-> "togglePlay.start" ]
            /\ UNCHANGED << history, isRecording, isArmedForRecording, activeNotes, currentStep,
                            recordedNotes, recordingStartTime, armed, recCount >>
    /\ EffectUnlock(TRUE)
    /\ rt' = RtIdle
    /\ scheduled' = {}
    /\ UNCHANGED miscVars
    /\ UNCHANGED << activePatternId, selectedChannelId, nextId, opCount >>
    /\ UNCHANGED << settingVars, songVars >>
    /\ samplerVolume' = AfterRender
    /\ samplers' = SamplersFollow
    \* Tone.Transport.cancel() of the stop; sequence.current?.start(0) of the start
    /\ sequence' = SequenceAfter(IF transportState = "started" THEN NotStarted ELSE 0)
    /\ channelParts' = PartsFollow

togglePlay ==
    /\ ~TransportLocked
    /\ togglePlayAfterAwait
    /\ startAudio

(***************************************************************************)
(* handleToggleRecord (record button)                                      *)
(***************************************************************************)
ClearChannelValue(ps, patternId, channelId) ==
    LET clear(c) == IF c.id = channelId
                    THEN [ c EXCEPT !.notes = << >>, !.steps = Zeros(c.steps.len) ]
                    ELSE c
    IN MapChannelsOf(ps, patternId, clear)

RecordingEvents ==
    LET countInDuration == countInBars * UnitsPerBar
        patternDuration == activePattern.length * UnitsPerStep
    IN { [ time |-> countInDuration, kind |-> "start", channelId |-> NoChannel ],
         [ time |-> countInDuration + patternDuration, kind |-> "stop",
           channelId |-> selectedChannelId ] }

\* handleToggleRecord from the line after the guard, await startAudio() returning at once
handleToggleRecordAfterGuard ==
    /\ IF isRecording \/ isArmedForRecording
       THEN /\ stopPlayback(selectedChannelId, transportPos)
            /\ lastOp' = StopRecord("handleToggleRecord.stop", selectedChannelId, transportPos)
       ELSE IF selectedChannelId = NoChannel
       THEN /\ lastOp' = [ name |-> "handleToggleRecord.refused", before |-> patterns ]
            /\ UNCHANGED << history, isPlaying, isRecording, isArmedForRecording,
                            currentStep, clockVars, captureVars >>
       ELSE /\ recCount < MaxRecordings
            /\ recCount' = recCount + 1
            /\ recordedNotes' = << >>
            /\ history' = HistorySet(history,
                              ClearChannelValue(patterns, activePatternId, selectedChannelId))
            /\ isArmedForRecording' = TRUE
            /\ events' = events \cup RecordingEvents
            /\ IF transportState = "stopped"
               THEN transportState' = "started" /\ \E o \in CtxOffsets : ctxOffset' = o
               ELSE UNCHANGED << transportState, ctxOffset >>
            /\ armed' = [ on |-> TRUE, patternId |-> activePatternId,
                          channelId |-> selectedChannelId,
                          found |-> HasChannel(patterns, activePatternId, selectedChannelId),
                          stopAt |-> countInBars * UnitsPerBar
                                       + activePattern.length * UnitsPerStep ]
            /\ lastOp' = [ name |-> "handleToggleRecord.arm",
                           wasStopped |-> ~isPlaying /\ transportState = "stopped",
                           before |-> patterns, channelId |-> selectedChannelId ]
            /\ UNCHANGED << isPlaying, isRecording, transportPos, activeNotes,
                            recordingStartTime, currentStep >>
    \* the request without a selected channel returns before taking the lock
    /\ EffectUnlock(isRecording \/ isArmedForRecording \/ selectedChannelId # NoChannel)
    /\ rt' = RtIdle
    /\ scheduled' = {}
    /\ UNCHANGED miscVars
    /\ UNCHANGED << activePatternId, selectedChannelId, nextId, opCount >>
    /\ UNCHANGED << settingVars, songVars >>
    /\ samplerVolume' = AfterRender
    /\ samplers' = SamplersFollow
    /\ sequence' = SequenceAfter(IF isRecording \/ isArmedForRecording
                                 THEN NotStarted ELSE sequence.start)
    /\ channelParts' = PartsFollow

handleToggleRecord ==
    /\ ~TransportLocked
    /\ handleToggleRecordAfterGuard
    /\ IF lastOp'.name = "handleToggleRecord.arm" THEN startAudio ELSE UNCHANGED audioVars

(***************************************************************************)
(* The transport clock. An event registered with scheduleOnce fires when   *)
(* the position reaches its time; one registered for a time the position   *)
(* has passed never fires.                                                 *)
(***************************************************************************)
Pending == { e \in events : e.time >= transportPos }

NextEvent ==
    CHOOSE e \in Pending :
        \A f \in Pending : e.time < f.time \/ (e.time = f.time /\ (e.kind = "start" \/ f = e))

\* time passes with no scheduled event on the way
Advance(d) ==
    /\ transportState = "started"
    /\ transportPos + d <= MaxTime
    /\ \A e \in Pending : e.time >= transportPos + d
    /\ transportPos' = transportPos + d
    /\ rt' = RtIdle
    /\ lastOp' = Other
    /\ scheduled' = {}
    /\ UNCHANGED << currentStep, miscVars >>
    /\ UNCHANGED << history, activePatternId, selectedChannelId, nextId, 
                    opCount, transportState, events, ctxOffset >>
    /\ UNCHANGED << flagVars, captureVars, settingVars, songVars >>
    /\ samplerVolume' = AfterRender
    /\ samplers' = SamplersFollow
    /\ sequence' = SequenceFollows
    /\ channelParts' = PartsFollow
    /\ UNCHANGED audioVars

\* time passes until the next scheduled event, whose callback runs: the
\* recording start (lines 946-957) or the stop at the end of the pattern
\* (lines 962-964), a stopPlayback of the render that armed the recording
TransportEvent ==
    /\ transportState = "started"
    /\ Pending # {}
    /\ LET e == NextEvent IN
       IF e.kind = "start"
       THEN /\ transportPos' = e.time
            /\ events' = events \ { e }
            /\ isArmedForRecording' = FALSE
            /\ isRecording' = TRUE
            /\ isPlaying' = TRUE
            /\ recordingStartTime' = e.time + ctxOffset
            /\ lastOp' = [ name |-> "startRecording" ]
            /\ UNCHANGED << history, transportState, ctxOffset, activeNotes,
                            recordedNotes, recCount, armed, currentStep >>
       ELSE /\ stopPlayback(e.channelId, e.time)
            /\ lastOp' = StopRecord("autoStop", e.channelId, e.time)
    /\ EffectUnlock(isTransportTransitioning)
    /\ rt' = RtIdle
    /\ scheduled' = {}
    /\ UNCHANGED miscVars
    /\ UNCHANGED << activePatternId, selectedChannelId, nextId, opCount >>
    /\ UNCHANGED << settingVars, songVars >>
    /\ samplerVolume' = AfterRender
    /\ samplers' = SamplersFollow
    \* sequence.current?.start(time) of the recording start
    /\ sequence' = SequenceAfter(IF NextEvent.kind # "start" THEN NotStarted
                                 ELSE IF sequence.start # NotStarted THEN sequence.start
                                 ELSE NextEvent.time)
    /\ channelParts' = PartsFollow
    /\ UNCHANGED audioVars

(***************************************************************************)
(* Musical typing: triggerTypingNote, releaseTypingNote                    *)
(***************************************************************************)
InMasterChannelList(channelId) ==
    /\ Len(patterns) > 0
    /\ \E k \in 1..Len(patterns[1].channels) : patterns[1].channels[k].id = channelId

\* activeNotes.current.set(pitch, ...): a Map keeps the place of a key it has
MapSetNote(notes, pitch, data) ==
    IF \E i \in 1..Len(notes) : notes[i].pitch = pitch
    THEN [ i \in 1..Len(notes) |-> IF notes[i].pitch = pitch THEN data ELSE notes[i] ]
    ELSE Append(notes, data)

SelectSeq2(notes, pitch) == SelectSeq(notes, LAMBDA n : n.pitch # pitch)

triggerTypingNote(channelId, pitch, velocity) ==
    /\ Len(recordedNotes) + Len(activeNotes) < MaxNotes
    /\ LET startStep == transportPos - recordingStartTime IN
       activeNotes' =
          IF /\ InMasterChannelList(channelId)
             /\ isRecording /\ selectedChannelId # NoChannel /\ recordingStartTime > 0
             /\ startStep >= 0
          THEN MapSetNote(activeNotes, pitch,
                          [ pitch |-> pitch, startTime |-> startStep, velocity |-> velocity ])
          ELSE activeNotes
    /\ rt' = RtIdle
    /\ lastOp' = Other
    /\ scheduled' = {}
    /\ UNCHANGED << currentStep, miscVars >>
    /\ UNCHANGED << history, activePatternId, selectedChannelId, nextId, opCount,
                    recordingStartTime, recordedNotes, recCount, armed >>
    /\ UNCHANGED << flagVars, clockVars, settingVars, songVars >>
    /\ samplerVolume' = AfterRender
    /\ samplers' = SamplersFollow
    /\ sequence' = SequenceFollows
    /\ channelParts' = PartsFollow
    /\ startAudio

releaseTypingNote(channelId, pitch) ==
    /\ LET held == SelectSeq(activeNotes, LAMBDA n : n.pitch = pitch)
           endStep == transportPos - recordingStartTime
       IN IF /\ InMasterChannelList(channelId)
             /\ isRecording /\ recordingStartTime > 0
             /\ Len(held) > 0
          THEN /\ recordedNotes' = Append(recordedNotes,
                    [ id |-> << "note", pitch >>, pitch |-> pitch,
                      start |-> held[1].startTime,
                      duration |-> Max(MinDuration, endStep - held[1].startTime),
                      velocity |-> held[1].velocity ])
               /\ activeNotes' = SelectSeq2(activeNotes, pitch)
          ELSE UNCHANGED << recordedNotes, activeNotes >>
    /\ rt' = RtIdle
    /\ lastOp' = Other
    /\ scheduled' = {}
    /\ UNCHANGED << currentStep, miscVars >>
    /\ UNCHANGED << history, activePatternId, selectedChannelId, nextId, opCount,
                    recordingStartTime, recCount, armed >>
    /\ UNCHANGED << flagVars, clockVars, settingVars, songVars >>
    /\ samplerVolume' = AfterRender
    /\ samplers' = SamplersFollow
    /\ sequence' = SequenceFollows
    /\ channelParts' = PartsFollow
    /\ UNCHANGED audioVars

(***************************************************************************)
(* Transport settings                                                      *)
(***************************************************************************)
\* the count-in <select> is disabled while playing, recording or armed
setCountInBars(bars) ==
    /\ ~(isPlaying \/ isRecording \/ isArmedForRecording)
    /\ countInBars' = bars
    /\ rt' = RtIdle
    /\ lastOp' = Other
    /\ scheduled' = {}
    /\ UNCHANGED << currentStep, miscVars >>
    /\ UNCHANGED << history, activePatternId, selectedChannelId, nextId, opCount,
                    playbackMode, quantizeSnapValue, audioNodes >>
    /\ UNCHANGED << flagVars, clockVars, captureVars, songVars >>
    /\ samplerVolume' = AfterRender
    /\ samplers' = SamplersFollow
    /\ sequence' = SequenceFollows
    /\ channelParts' = PartsFollow
    /\ UNCHANGED audioVars

setQuantizeSnapValue(snap) ==
    /\ quantizeSnapValue' = snap
    /\ rt' = RtIdle
    /\ lastOp' = Other
    /\ scheduled' = {}
    /\ UNCHANGED << currentStep, miscVars >>
    /\ UNCHANGED << history, activePatternId, selectedChannelId, nextId, opCount,
                    playbackMode, countInBars, audioNodes >>
    /\ UNCHANGED << flagVars, clockVars, captureVars, songVars >>
    /\ samplerVolume' = AfterRender
    /\ samplers' = SamplersFollow
    /\ sequence' = SequenceFollows
    /\ channelParts' = PartsFollow
    /\ UNCHANGED audioVars

\* the effect on [view]: setPlaybackMode(view) for the pattern and song views
setView(view) ==
    /\ playbackMode' = view
    /\ rt' = RtIdle
    /\ lastOp' = Other
    /\ scheduled' = {}
    /\ UNCHANGED << currentStep, miscVars >>
    /\ UNCHANGED << history, activePatternId, selectedChannelId, nextId, opCount,
                    countInBars, quantizeSnapValue, audioNodes >>
    /\ UNCHANGED << flagVars, clockVars, captureVars, songVars >>
    /\ samplerVolume' = AfterRender
    /\ samplers' = SamplersFollow
    /\ sequence' = SequenceFollows
    /\ channelParts' = PartsFollow
    /\ UNCHANGED audioVars

(***************************************************************************)
(* Piano roll and sample pool: handleUpdateChannelNotes, handleSampleDrop  *)
(***************************************************************************)
\* what the piano roll hands over
NoteLists ==
    { << >>,
      << [ id |-> << "note", 60 >>, pitch |-> 60, start |-> 0,
           duration |-> 2 * UnitsPerStep, velocity |-> 100 ] >> }

\* what the sample pool hands over: a sample with its object URL
Samples == { [ name |-> << "kick", 0 >>, url |-> "blob:kick" ] }

handleUpdateChannelNotes(channelId, notes) ==
    /\ Mutate("handleUpdateChannelNotes",
              UpdateChannelNotesValue(patterns, activePatternId, channelId, notes), FALSE)
    /\ scheduled' = {}
    /\ UNCHANGED << currentStep, miscVars >>
    /\ UNCHANGED << activePatternId, selectedChannelId, nextId >>
    /\ UNCHANGED << flagVars, clockVars, captureVars, settingVars, songVars >>
    /\ samplerVolume' = AfterRender
    /\ samplers' = SamplersFollow
    /\ sequence' = SequenceFollows
    /\ channelParts' = PartsFollow
    /\ UNCHANGED audioVars

\* short: buffer.duration < 1.5
SampleDropValue(ps, patternId, channelId, sample, short) ==
    LET f(ch) == IF ch.id = channelId
                 THEN [ ch EXCEPT !.sample = sample, !.cutItself = short ]
                 ELSE ch
    IN MapChannelsOf(ps, patternId, f)

\* loadSampler, with the sample loading
loadSampler(nodes, sample) ==
    IF sample.name \in nodes \/ sample.url = "" THEN nodes ELSE nodes \cup { sample.name }

handleSampleDrop(channelId, sample, short) ==
    /\ Mutate("handleSampleDrop",
              SampleDropValue(patterns, activePatternId, channelId, sample, short), FALSE)
    /\ audioNodes' = IF HasChannel(patterns, activePatternId, channelId)
                     THEN loadSampler(audioNodes, sample)
                     ELSE audioNodes
    /\ scheduled' = {}
    /\ UNCHANGED << currentStep, miscVars >>
    /\ UNCHANGED << activePatternId, selectedChannelId, nextId, 
                    playbackMode, countInBars, quantizeSnapValue >>
    /\ UNCHANGED << flagVars, clockVars, captureVars, songVars >>
    /\ samplerVolume' = AfterRender
    /\ samplers' = SamplersFollow
    /\ sequence' = SequenceFollows
    /\ channelParts' = PartsFollow
    /\ UNCHANGED audioVars

\* channels.findIndex(c => c.id === id), 0 for -1
FindChannelIndex(channels, channelId) ==
    IF \E k \in 1..Len(channels) : channels[k].id = channelId
    THEN CHOOSE k \in 1..Len(channels) :
            /\ channels[k].id = channelId
            /\ \A j \in 1..(k - 1) : channels[j].id # channelId
    ELSE 0

\* the index is looked up in the first pattern; the flags are set at that
\* index in every pattern
ChannelMuteSoloValue(ps, channelId, type) ==
    LET channelIndex == FindChannelIndex(ps[1].channels, channelId)
        currentChannelState == ps[1].channels[channelIndex]
        newMutedState == IF type = "mute" THEN ~currentChannelState.isMuted
                         ELSE IF ~currentChannelState.isSoloed THEN FALSE
                         ELSE currentChannelState.isMuted
        newSoloState == IF type = "solo" THEN ~currentChannelState.isSoloed
                        ELSE IF ~currentChannelState.isMuted THEN FALSE
                        ELSE currentChannelState.isSoloed
    IN IF channelIndex = 0 THEN ps
       ELSE [ i \in 1..Len(ps) |->
                [ ps[i] EXCEPT !.channels =
                    [ k \in 1..Len(ps[i].channels) |->
                        IF k # channelIndex THEN ps[i].channels[k]
                        ELSE [ ps[i].channels[k] EXCEPT !.isMuted = newMutedState,
                                                        !.isSoloed = newSoloState ] ] ] ]

handleChannelMuteSoloChange(channelId, type) ==
    /\ Len(patterns) > 0
    /\ Mutate("handleChannelMuteSoloChange",
              ChannelMuteSoloValue(patterns, channelId, type), FALSE)
    /\ scheduled' = {}
    /\ UNCHANGED << currentStep, miscVars >>
    /\ UNCHANGED << activePatternId, selectedChannelId, nextId >>
    /\ UNCHANGED << flagVars, clockVars, captureVars, settingVars, songVars >>
    /\ samplerVolume' = AfterRender
    /\ samplers' = SamplersFollow
    /\ sequence' = SequenceFollows
    /\ channelParts' = PartsFollow
    /\ UNCHANGED audioVars

(***************************************************************************)
(* Step triggers. A trigger is the call group one step value causes on a   *)
(* channel's sampler: hits is the number of triggerAttack calls.           *)
(***************************************************************************)
Subdivisions(stepValue) == IF stepValue = 3 THEN 3 ELSE stepValue

\* Tone.Time('16n'), in units that divide by 2, 3 and 4
NoteDuration == 12

\* the calls on the sampler in program order, each with its scheduled time:
\* live playback releases the voices of a cutItself channel at the step's
\* time, the exports never do; then one attack, or one per subdivision at
\* time + i * subNoteDuration
SamplerCalls(path, channel, step, stepValue) ==
    LET time == step * NoteDuration
        subNoteDuration == NoteDuration \div Subdivisions(stepValue)
        release == IF path \in { "live pattern", "live song" } /\ channel.cutItself
                   THEN << [ call |-> "releaseAll", time |-> time ] >>
                   ELSE << >>
    IN release \o [ i \in 1..Subdivisions(stepValue) |->
                      [ call |-> "triggerAttack", time |-> time + (i - 1) * subNoteDuration ] ]

Trigger(path, patternId, channel, step, stepValue) ==
    [ path |-> path, patternId |-> patternId, channelId |-> channel.id,
      step |-> step, hits |-> Subdivisions(stepValue),
      calls |-> SamplerCalls(path, channel, step, stepValue) ]

\* triggerStep of the sequence effect (live playback)
triggerStep(path, patternId, step, stepValue, channel) ==
    IF channel.isAudioClipChannel THEN {}
    ELSE IF Len(channel.notes) > 0 THEN {}
    ELSE IF stepValue > 0 /\ channel.sample.name \in audioNodes
         THEN { Trigger(path, patternId, channel, step, stepValue) }
         ELSE {}

\* patternSequenceCallback(time, step)
PatternStepTriggers(pattern, step) ==
    UNION { triggerStep("live pattern", pattern.id, step,
                        StepAt(pattern.channels[k].steps, step), pattern.channels[k]) :
            k \in 1..Len(pattern.channels) }

(***************************************************************************)
(* songSequenceCallback: which pattern plays at a bar                      *)
(***************************************************************************)
NoMatch == [ patternId |-> 0, startBar |-> -1 ]

\* an entry at track:searchBar whose pattern exists and reaches currentBar
Covers(pl, ps, track, searchBar, currentBar) ==
    /\ PlaylistKey(track, searchBar) \in DOMAIN pl
    /\ HasPattern(ps, pl[PlaylistKey(track, searchBar)])
    /\ currentBar * StepsPerBar
          < searchBar * StepsPerBar + FindPattern(ps, pl[PlaylistKey(track, searchBar)]).length

\* the inner loop with the test of the length left out
RECURSIVE ResolveOnTrackNearestEntry(_, _, _, _, _)
ResolveOnTrackNearestEntry(pl, ps, track, searchBar, currentBar) ==
    IF searchBar < 0 THEN NoMatch
    ELSE IF /\ PlaylistKey(track, searchBar) \in DOMAIN pl
            /\ HasPattern(ps, pl[PlaylistKey(track, searchBar)])
         THEN [ patternId |-> pl[PlaylistKey(track, searchBar)], startBar |-> searchBar ]
         ELSE ResolveOnTrackNearestEntry(pl, ps, track, searchBar - 1, currentBar)

\* the inner loop: for (searchBar = currentBar; searchBar >= 0; searchBar--)
RECURSIVE ResolveOnTrack(_, _, _, _, _)
ResolveOnTrack(pl, ps, track, searchBar, currentBar) ==
    IF searchBar < 0 THEN NoMatch
    ELSE IF Covers(pl, ps, track, searchBar, currentBar)
         THEN [ patternId |-> pl[PlaylistKey(track, searchBar)], startBar |-> searchBar ]
         ELSE ResolveOnTrack(pl, ps, track, searchBar - 1, currentBar)

\* the outer loop taken from the last track down
RECURSIVE ResolveSongFromLastTrack(_, _, _, _)
ResolveSongFromLastTrack(pl, ps, track, currentBar) ==
    IF track >= NumTracks THEN NoMatch
    ELSE LET found == ResolveOnTrack(pl, ps, NumTracks - 1 - track, currentBar, currentBar)
         IN IF found # NoMatch THEN found
            ELSE ResolveSongFromLastTrack(pl, ps, track + 1, currentBar)

\* the outer loop: for (track = 0; track < 32; track++) ... break
RECURSIVE ResolveSong(_, _, _, _)
ResolveSong(pl, ps, track, currentBar) ==
    IF track >= NumTracks THEN NoMatch
    ELSE LET found == ResolveOnTrack(pl, ps, track, currentBar, currentBar)
         IN IF found # NoMatch THEN found
            ELSE ResolveSong(pl, ps, track + 1, currentBar)

SongStepTriggers(pl, ps, step) ==
    LET currentBar == step \div StepsPerBar
        stepInBar == step % StepsPerBar
        found == ResolveSong(pl, ps, 0, currentBar)
        patternToPlay == FindPattern(ps, found.patternId)
        stepInPattern == (currentBar - found.startBar) * StepsPerBar + stepInBar
    IN IF found = NoMatch THEN {}
       ELSE UNION { triggerStep("live song", patternToPlay.id, step,
                                StepAt(patternToPlay.channels[k].steps,
                                       stepInPattern % patternToPlay.channels[k].steps.len),
                                patternToPlay.channels[k]) :
                    k \in 1..Len(patternToPlay.channels) }

(***************************************************************************)
(* exportService.ts: the triggers an offline render schedules              *)
(***************************************************************************)
\* samplers.get(channel.sample.name): a sampler was made for every sample
\* of these channels that has a url
HasExportSampler(channels, name) ==
    \E k \in 1..Len(channels) : channels[k].sample.name = name /\ channels[k].sample.url # ""

\* channel.steps.forEach((stepValue, stepIndex) => ...) of one channel
ExportChannelTriggers(path, pattern, channel, firstStep) ==
    { Trigger(path, pattern.id, channel, firstStep + i, StepAt(channel.steps, i)) :
        i \in { j \in DOMAIN channel.steps.on :
                  ~(j >= pattern.length \/ StepAt(channel.steps, j) <= 0) } }

exportPatternToWav(pattern) ==
    IF pattern.length <= 0 THEN {}
    ELSE UNION { IF HasExportSampler(pattern.channels, pattern.channels[k].sample.name)
                 THEN ExportChannelTriggers("pattern export", pattern, pattern.channels[k], 0)
                 ELSE {} :
                 k \in 1..Len(pattern.channels) }

AllChannels(ps) ==
    UNION { { ps[i].channels[k] : k \in 1..Len(ps[i].channels) } : i \in 1..Len(ps) }

songEndBar16(pl, ps) ==
    LET ends == { KeyBar(key) * StepsPerBar + FindPattern(ps, pl[key]).length :
                    key \in { q \in DOMAIN pl : HasPattern(ps, pl[q]) } }
    IN IF ends = {} THEN 0 ELSE CHOOSE e \in ends : \A f \in ends : f <= e

renderSongToBuffer(pl, ps) ==
    IF songEndBar16(pl, ps) <= 0 THEN {}
    ELSE UNION { LET pattern == FindPattern(ps, pl[key]) IN
                 UNION { LET channel == pattern.channels[k] IN
                         IF channel.isAudioClipChannel THEN {}
                         ELSE IF ~(\E c \in AllChannels(ps) :
                                     /\ ~c.isAudioClipChannel
                                     /\ c.sample.url # ""
                                     /\ c.sample.name = channel.sample.name)
                              THEN {}
                              ELSE ExportChannelTriggers("song export", pattern, channel,
                                                         KeyBar(key) * StepsPerBar) :
                         k \in 1..Len(pattern.channels) } :
                 key \in { q \in DOMAIN pl : HasPattern(ps, pl[q]) } }

(***************************************************************************)
(* The four scheduling paths as steps of the program                       *)
(***************************************************************************)
Schedules(name, step, triggers) ==
    /\ scheduled' = triggers
    /\ UNCHANGED miscVars
    /\ rt' = RtIdle
    /\ lastOp' = [ name |-> name, step |-> step ]
    /\ UNCHANGED << history, activePatternId, selectedChannelId, nextId, opCount >>
    /\ UNCHANGED << flagVars, clockVars, captureVars, settingVars, songVars >>
    /\ samplerVolume' = AfterRender
    /\ samplers' = SamplersFollow
    /\ sequence' = SequenceFollows
    /\ channelParts' = PartsFollow
    /\ UNCHANGED audioVars

\* the sequence of pattern mode exists only when the active pattern does;
\* its callback runs on the pattern the effect captured
patternSequenceCallback(step) ==
    /\ isPlaying /\ playbackMode = "pattern"
    /\ sequence.kind = "pattern"
    /\ step < sequence.pattern.length
    /\ Schedules("patternSequenceCallback", step, PatternStepTriggers(sequence.pattern, step))
    \* Tone.Draw.schedule(() => setCurrentStep(step), time), the callback run
    /\ currentStep' = step

songSequenceCallback(step) ==
    /\ isPlaying /\ playbackMode = "song"
    /\ step < SongLengthBars * StepsPerBar
    /\ Schedules("songSequenceCallback", step, SongStepTriggers(playlist, patterns, step))
    \* Tone.Draw.schedule(() => setCurrentStep(step), time), the callback run
    /\ currentStep' = step

handleExportPattern ==
    /\ Schedules("handleExportPattern", 0, exportPatternToWav(activePattern))
    /\ UNCHANGED currentStep

handleExportSong ==
    /\ Schedules("handleExportSong", 0, renderSongToBuffer(playlist, patterns))
    /\ UNCHANGED currentStep

(***************************************************************************)
(* Initial state: the state after App's first render                       *)
(***************************************************************************)
Init ==
    /\ history = [ past |-> << >>, present |-> initialPatterns, future |-> << >> ]
    /\ activePatternId = initialPatterns[1].id
    /\ selectedChannelId = initialPatterns[1].channels[1].id
    /\ brushPatternId = initialPatterns[1].id
    /\ playlist = EmptyPlaylist
    /\ playbackMode = "pattern"
    /\ countInBars = 1
    /\ quantizeSnapValue = "1/8"
    /\ isPlaying = FALSE
    /\ isRecording = FALSE
    /\ isArmedForRecording = FALSE
    /\ isTransportTransitioning = FALSE
    /\ transportState = "stopped"
    /\ transportPos = 0
    /\ events = {}
    /\ ctxOffset = 0
    /\ recordingStartTime = 0
    /\ activeNotes = << >>
    /\ recordedNotes = << >>
    /\ recCount = 0
    /\ audioNodes = {}
    /\ scheduled = {}
    /\ currentStep = -1
    /\ draws = {}
    /\ isExporting = FALSE
    /\ bpm = 120
    /\ swing = 0
    /\ samplerVolume = NewSamplers({})
    /\ samplers = RegisteredSamplers({})
    /\ sequence = FirstSequence(playbackMode, patterns, activePatternId,
                              transportState = "started")
    /\ channelParts = PartsEffect(playbackMode, PartsDeps[1], audioNodes)
    /\ isAudioStarted = FALSE
    /\ awaiting = {}
    /\ opCount = 0
    /\ nextId = 2
    /\ armed = NotArmed
    /\ rt = RtIdle
    /\ lastOp = [ name |-> "init" ]

(***************************************************************************)
(* Editing the pattern store, with undo and redo                           *)
(***************************************************************************)
NextHistory ==
    \/ \E c \in ChannelIds, i \in StepIndices, b \in BOOLEAN : handleStepToggle(c, i, b)
    \/ \E c \in ChannelIds, i \in StepIndices, b \in BOOLEAN : handleStepSubdivide(c, i, b)
    \/ \E b \in BOOLEAN : handleClearPattern(b)
    \/ \E b \in BOOLEAN : handleAddPattern(b)
    \/ undoPatterns
    \/ redoPatterns

SpecHistory == Init /\ [][NextHistory]_vars

(***************************************************************************)
(* Arranging the song: placements, removals, auto-arrange, with the        *)
(* pattern-store changes that alter the placed patterns                    *)
(***************************************************************************)
NextPlaylist ==
    \/ \E t \in 0..MaxTrack, b \in 0..MaxBar : handleGridClick(t, b)
    \/ \E t \in 0..MaxTrack, b \in 0..MaxBar : handleGridContextMenu(t, b)
    \/ \E o \in ArrangementOptions : handleArrange(o)
    \/ \E p \in Range(patterns) : BrushSelect(p.id)
    \/ opCount < MaxStoreOps /\ \E l \in Lengths : handlePatternLengthChange(l, FALSE)
    \/ opCount < MaxStoreOps /\ handleAddPattern(FALSE)
    \/ \E p \in Range(patterns) : PatternSelect(p.id)
    \/ undoPatterns
    \/ redoPatterns

SpecPlaylist == Init /\ [][NextPlaylist]_vars

(***************************************************************************)
(* Painting the song grid: placements and removals, with the pattern-store *)
(* changes that give the placed patterns different lengths                 *)
(***************************************************************************)
NextPlacement ==
    \/ \E t \in 0..MaxTrack, b \in 0..MaxBar : handleGridClick(t, b)
    \/ \E t \in 0..MaxTrack, b \in 0..MaxBar : handleGridContextMenu(t, b)
    \/ \E p \in Range(patterns) : BrushSelect(p.id)
    \/ opCount < MaxStoreOps /\ \E l \in Lengths : handlePatternLengthChange(l, FALSE)
    \/ opCount < MaxStoreOps /\ handleAddPattern(FALSE)

SpecPlacement == Init /\ [][NextPlacement]_vars

(***************************************************************************)
(* Arranging the song while it plays. The behaviours start with the song   *)
(* view playing and a store built with the handlers.                       *)
(***************************************************************************)
Kick == CHOOSE sample \in Samples : TRUE

\* the song view, playing, after the store edits that left the history h
\* and the pattern `active` selected
SongPlaying(h, active) ==
    /\ history = h
    /\ activePatternId = active
    /\ selectedChannelId = ChannelId(1, 1)
    /\ brushPatternId = 1
    /\ playlist = EmptyPlaylist
    /\ playbackMode = "song"
    /\ countInBars = 1
    /\ quantizeSnapValue = "1/8"
    /\ isPlaying = TRUE
    /\ isRecording = FALSE
    /\ isArmedForRecording = FALSE
    /\ isTransportTransitioning = FALSE
    /\ transportState = "started"
    /\ transportPos = 0
    /\ events = {}
    /\ ctxOffset = CHOOSE o \in CtxOffsets : \A q \in CtxOffsets : o <= q
    /\ recordingStartTime = 0
    /\ activeNotes = << >>
    /\ recordedNotes = << >>
    /\ recCount = 0
    /\ audioNodes = loadSampler({}, Kick)
    /\ scheduled = {}
    /\ currentStep = -1
    /\ draws = {}
    /\ isExporting = FALSE
    /\ bpm = 120
    /\ swing = 0
    /\ samplerVolume = MuteSoloEffect(h.present, NewSamplers(loadSampler({}, Kick)))
    /\ samplers = RegisteredSamplers(loadSampler({}, Kick))
    /\ sequence = FirstSequence(playbackMode, patterns, activePatternId,
                              transportState = "started")
    /\ channelParts = PartsEffect(playbackMode, PartsDeps[1], audioNodes)
    /\ isAudioStarted = TRUE
    /\ awaiting = {}
    /\ opCount = 0
    /\ nextId = 3
    /\ armed = NotArmed
    /\ rt = RtIdle
    /\ lastOp = [ name |-> "init" ]

\* a sample dropped on the first channel, its first step set and the length
\* of the pattern chosen, then a second pattern added and its first step set
SongStoreSteps(lenA) ==
    LET h0 == [ past |-> << >>, present |-> initialPatterns, future |-> << >> ]
        h1 == HistorySet(h0, SampleDropValue(h0.present, 1, ChannelId(1, 1), Kick, TRUE))
        h2 == HistorySet(h1, StepToggleValue(h1.present, 1, ChannelId(1, 1), 0))
        h3 == HistorySet(h2, PatternLengthChangeValue(h2.present, 1, lenA))
        h4 == HistorySet(h3, Append(h3.present,
                                    createNewPattern(2, TRUE, FindPattern(h3.present, 1).channels)))
    IN HistorySet(h4, StepToggleValue(h4.present, 2, ChannelId(2, 1), 0))

InitSong == \E lenA \in Lengths : SongPlaying(SongStoreSteps(lenA), 2)

\* the 16th steps at which the callback is observed: the first of each bar
LiveSteps == { b * StepsPerBar : b \in 0..(MaxLiveBar + 1) }

NextSong ==
    \/ \E t \in 0..MaxTrack, b \in 0..MaxLiveBar :
          /\ Cardinality(DOMAIN GridClickValue(playlist, patterns, brushPatternId, t, b))
                <= MaxSongEntries
          /\ handleGridClick(t, b)
    \/ \E t \in 0..MaxTrack, b \in 0..MaxLiveBar : handleGridContextMenu(t, b)
    \/ \E p \in Range(patterns) : BrushSelect(p.id)
    \/ Len(history.future) < MaxSongUndos /\ undoPatterns
    \/ redoPatterns
    \/ \E step \in LiveSteps : songSequenceCallback(step)

SpecSong == InitSong /\ [][NextSong]_vars

(***************************************************************************)
(* Resolving the song position on a track while the arrangement and the    *)
(* lengths of the placed patterns change                                   *)
(***************************************************************************)
\* a sample dropped on the first channel and its first step set, a second
\* pattern added, then the first pattern selected again and made 2 bars long
ResolveStoreSteps ==
    LET h0 == [ past |-> << >>, present |-> initialPatterns, future |-> << >> ]
        h1 == HistorySet(h0, SampleDropValue(h0.present, 1, ChannelId(1, 1), Kick, TRUE))
        h2 == HistorySet(h1, StepToggleValue(h1.present, 1, ChannelId(1, 1), 0))
        h3 == HistorySet(h2, Append(h2.present,
                                    createNewPattern(2, TRUE, FindPattern(h2.present, 1).channels)))
    IN HistorySet(h3, PatternLengthChangeValue(h3.present, 1, LengthOptions[2]))

InitResolve == SongPlaying(ResolveStoreSteps, 1)

SongSteps == { b * StepsPerBar : b \in 0..MaxSongBar }

NextResolve ==
    \/ \E t \in 0..MaxResolveTrack, b \in 0..MaxSongBar :
          /\ Cardinality(DOMAIN GridClickValue(playlist, patterns, brushPatternId, t, b))
                <= MaxSongEntries
          /\ handleGridClick(t, b)
    \/ \E t \in 0..MaxResolveTrack, b \in 0..MaxSongBar : handleGridContextMenu(t, b)
    \/ \E p \in Range(patterns) : BrushSelect(p.id)
    \/ Len(history.future) < MaxSongUndos /\ undoPatterns
    \/ redoPatterns
    \/ \E step \in SongSteps : songSequenceCallback(step)

SpecResolve == InitResolve /\ [][NextResolve]_vars

(***************************************************************************)
(* The four scheduling paths, with the edits that give a channel a sample, *)
(* notes and steps                                                         *)
(***************************************************************************)
NextTriggers ==
    \/ \E short \in BOOLEAN : handleSampleDrop(selectedChannelId, Kick, short)
    \/ \E n \in NoteLists : handleUpdateChannelNotes(selectedChannelId, n)
    \/ handleStepToggle(selectedChannelId, 0, FALSE)
    \/ handleGridClick(0, 0)
    \/ handleGridContextMenu(0, 0)
    \/ \E v \in { "pattern", "song" } : setView(v)
    \/ togglePlay
    \/ \E step \in StepIndices : patternSequenceCallback(step)
    \/ \E step \in StepIndices : songSequenceCallback(step)
    \/ handleExportPattern
    \/ handleExportSong

SpecTriggers == Init /\ [][NextTriggers]_vars

(***************************************************************************)
(* Playing and recording: the transport with its clock, the typing         *)
(* keyboard, and the edits that can be made meanwhile                      *)
(***************************************************************************)
ActiveRows == { activePattern.channels[k].id : k \in 1..Len(activePattern.channels) }

NextTransport ==
    \/ togglePlay
    \/ handleToggleRecord
    \/ \E d \in AdvanceSizes : Advance(d)
    \/ TransportEvent
    \/ isRecording /\ selectedChannelId # NoChannel
          /\ \E p \in Pitches, v \in Velocities : triggerTypingNote(selectedChannelId, p, v)
    \/ isRecording /\ selectedChannelId # NoChannel
          /\ \E p \in Pitches : releaseTypingNote(selectedChannelId, p)
    \/ \E c \in CountIns : setCountInBars(c)
    \/ \E p \in Range(patterns) : PatternSelect(p.id)
    \/ \E c \in ActiveRows : ChannelSelect(c)
    \/ opCount < MaxTransportEdits /\ handleAddPattern(FALSE)
    \/ opCount < MaxTransportEdits /\ handleStepToggle(selectedChannelId, 0, FALSE)
    \/ opCount < MaxTransportEdits /\ \E l \in Lengths : handlePatternLengthChange(l, FALSE)

SpecTransport == Init /\ [][NextTransport]_vars

(***************************************************************************)
(* quantizeNotes applied to one recorded note, for every grid setting      *)
(***************************************************************************)
AllSnapValues == { "1/64", "1/32", "1/16", "1/8", "1/4", "1/2", "None" }

RecordedNote(start, duration) ==
    [ id |-> << "note", 60 >>, pitch |-> 60, start |-> start,
      duration |-> duration, velocity |-> 100 ]

InitQuantize ==
    /\ history = [ past |-> << >>, present |-> initialPatterns, future |-> << >> ]
    /\ activePatternId = initialPatterns[1].id
    /\ selectedChannelId = initialPatterns[1].channels[1].id
    /\ brushPatternId = initialPatterns[1].id
    /\ playlist = EmptyPlaylist
    /\ playbackMode = "pattern"
    /\ countInBars = 1
    /\ quantizeSnapValue \in AllSnapValues
    /\ isPlaying = FALSE
    /\ isRecording = FALSE
    /\ isArmedForRecording = FALSE
    /\ isTransportTransitioning = FALSE
    /\ transportState = "stopped"
    /\ transportPos = 0
    /\ events = {}
    /\ ctxOffset = 0
    /\ recordingStartTime = 0
    /\ activeNotes = << >>
    /\ \E start \in 0..MaxNoteStart, duration \in MinDuration..MaxNoteDuration :
           recordedNotes = << RecordedNote(start, duration) >>
    /\ recCount = 0
    /\ audioNodes = {}
    /\ scheduled = {}
    /\ currentStep = -1
    /\ draws = {}
    /\ isExporting = FALSE
    /\ bpm = 120
    /\ swing = 0
    /\ samplerVolume = NewSamplers({})
    /\ samplers = RegisteredSamplers({})
    /\ sequence = FirstSequence(playbackMode, patterns, activePatternId,
                              transportState = "started")
    /\ channelParts = PartsEffect(playbackMode, PartsDeps[1], audioNodes)
    /\ isAudioStarted = FALSE
    /\ awaiting = {}
    /\ opCount = 0
    /\ nextId = 2
    /\ armed = NotArmed
    /\ rt = RtIdle
    /\ lastOp = [ name |-> "init" ]

\* finalNotes = quantizeNotes(finalNotes, quantizeSnapValueRef.current)
QuantizeRecorded ==
    /\ lastOp.name = "init"
    /\ recordedNotes' = quantizeNotes(recordedNotes, quantizeSnapValue)
    /\ lastOp' = [ name |-> "quantizeNotes", notes |-> recordedNotes,
                   snapValue |-> quantizeSnapValue ]
    /\ rt' = RtIdle
    /\ scheduled' = {}
    /\ UNCHANGED << currentStep, miscVars >>
    /\ UNCHANGED << history, activePatternId, selectedChannelId, nextId, opCount,
                    settingVars, flagVars, clockVars, songVars, recordingStartTime,
                    activeNotes, recCount, armed >>
    /\ samplerVolume' = AfterRender
    /\ samplers' = SamplersFollow
    /\ sequence' = SequenceFollows
    /\ channelParts' = PartsFollow
    /\ UNCHANGED audioVars

NextQuantize == QuantizeRecorded

SpecQuantize == InitQuantize /\ [][NextQuantize]_vars

(***************************************************************************)
(* The callbacks one at a time. A callback of the transport runs ahead of  *)
(* the audio time it is for and hands its state updates to Tone.Draw,      *)
(* which runs them when that time has come. Tone.Transport.stop() and      *)
(* cancel() leave what Tone.Draw holds in place.                           *)
(***************************************************************************)
\* the scheduleOnce callbacks of handleToggleRecord, the next one due
ScheduledEvent ==
    /\ transportState = "started"
    /\ Pending # {}
    /\ LET e == NextEvent IN
       IF e.kind = "start"
       THEN /\ transportPos' = e.time
            /\ events' = events \ { e }
            /\ draws' = draws \cup { [ kind |-> "startRecording", step |-> 0,
                                       time |-> e.time + ctxOffset ] }
            /\ lastOp' = [ name |-> "startRecordingEvent" ]
            /\ UNCHANGED << history, transportState, ctxOffset, isPlaying, isRecording,
                            isArmedForRecording, captureVars, currentStep >>
       ELSE /\ stopPlayback(e.channelId, e.time)
            /\ lastOp' = StopRecord("autoStop", e.channelId, e.time)
            /\ UNCHANGED draws
    /\ EffectUnlock(isTransportTransitioning)
    /\ rt' = RtIdle
    /\ scheduled' = {}
    /\ UNCHANGED << activePatternId, selectedChannelId, nextId, opCount >>
    /\ UNCHANGED << settingVars, songVars, isExporting, bpm, swing >>
    /\ samplerVolume' = AfterRender
    /\ samplers' = SamplersFollow
    \* sequence.current?.start(time) of the recording start
    /\ sequence' = SequenceAfter(IF NextEvent.kind # "start" THEN NotStarted
                                 ELSE IF sequence.start # NotStarted THEN sequence.start
                                 ELSE NextEvent.time)
    /\ channelParts' = PartsFollow
    /\ UNCHANGED audioVars

\* patternSequenceCallback(time, step) as the transport calls it: the
\* transport runs and has reached the time the sequence was started for
patternSequenceTick(step) ==
    /\ transportState = "started"
    /\ sequence.kind = "pattern"
    /\ sequence.start # NotStarted /\ sequence.start <= transportPos
    /\ step < sequence.pattern.length
    /\ scheduled' = PatternStepTriggers(sequence.pattern, step)
    /\ draws' = draws \cup { [ kind |-> "step", step |-> step, time |-> 0 ] }
    /\ rt' = RtIdle
    /\ lastOp' = [ name |-> "patternSequenceTick", step |-> step ]
    /\ UNCHANGED << history, activePatternId, selectedChannelId, nextId, opCount,
                    currentStep, isExporting, bpm, swing >>
    /\ UNCHANGED << flagVars, clockVars, captureVars, settingVars, songVars >>
    /\ samplerVolume' = AfterRender
    /\ samplers' = SamplersFollow
    /\ sequence' = SequenceFollows
    /\ channelParts' = PartsFollow
    /\ UNCHANGED audioVars

\* Tone.Draw runs a callback it holds
DrawCallback(d) ==
    /\ d \in draws
    /\ draws' = draws \ { d }
    /\ IF d.kind = "step"
       THEN /\ currentStep' = d.step
            /\ UNCHANGED << isPlaying, isRecording, isArmedForRecording,
                            recordingStartTime >>
       ELSE /\ isArmedForRecording' = FALSE
            /\ isRecording' = TRUE
            /\ isPlaying' = TRUE
            /\ recordingStartTime' = d.time
            /\ UNCHANGED currentStep
    /\ EffectUnlock(isTransportTransitioning)
    /\ rt' = RtIdle
    /\ lastOp' = [ name |-> "DrawCallback", kind |-> d.kind ]
    /\ scheduled' = {}
    /\ UNCHANGED << history, activePatternId, selectedChannelId, nextId, opCount,
                    activeNotes, recordedNotes, recCount, armed, isExporting, bpm, swing >>
    /\ UNCHANGED << clockVars, settingVars, songVars >>
    /\ samplerVolume' = AfterRender
    /\ samplers' = SamplersFollow
    /\ sequence' = SequenceFollows
    /\ channelParts' = PartsFollow
    /\ UNCHANGED audioVars

NextCancel ==
    \/ togglePlay
    \/ handleToggleRecord
    \/ \E d \in AdvanceSizes : Advance(d)
    \/ ScheduledEvent
    \/ \E step \in StepIndices : patternSequenceTick(step)
    \/ \E d \in draws : DrawCallback(d)
    \/ \E c \in CountIns : setCountInBars(c)

SpecCancel == Init /\ [][NextCancel]_vars

(***************************************************************************)
(* The transition guard. Until isAudioStarted is set, await startAudio()   *)
(* waits for Tone.start() and other handlers run in between; afterwards    *)
(* startAudio returns at once and the handler is not interrupted.          *)
(***************************************************************************)
Requests == { "togglePlay", "handleToggleRecord" }

\* the handler reaches await startAudio() with Tone.start() still to be called
AwaitsToneStart(name) ==
    /\ ~isAudioStarted
    /\ name = "handleToggleRecord" =>
          ~(isRecording \/ isArmedForRecording) /\ selectedChannelId # NoChannel

\* the handler up to await startAudio(): the guard, then the flag is set
RequestAwaits(name) ==
    /\ ~TransportLocked
    /\ AwaitsToneStart(name)
    /\ name \notin awaiting
    /\ isTransportTransitioning' = TRUE
    /\ awaiting' = awaiting \cup { name }
    /\ rt' = RtIdle
    /\ lastOp' = [ name |-> "awaits", handler |-> name ]
    /\ scheduled' = {}
    /\ UNCHANGED << history, activePatternId, selectedChannelId, nextId, opCount,
                    isPlaying, isRecording, isArmedForRecording, currentStep,
                    isAudioStarted, samplerVolume, samplers, sequence,
                    channelParts >>
    /\ UNCHANGED << clockVars, captureVars, settingVars, songVars, miscVars >>

\* Tone.start() has resolved: setIsAudioStarted(true) and the rest of the handler
RequestResumes(name) ==
    /\ name \in awaiting
    /\ IF name = "togglePlay" THEN togglePlayAfterAwait ELSE handleToggleRecordAfterGuard
    /\ isAudioStarted' = TRUE
    /\ awaiting' = awaiting \ { name }

\* a request made while the flag is set returns at the handler's first line
RequestIgnored(name) ==
    /\ TransportLocked
    /\ rt' = RtIdle
    /\ lastOp' = [ name |-> "ignored", handler |-> name ]
    /\ scheduled' = {}
    /\ UNCHANGED << history, activePatternId, selectedChannelId, nextId, opCount,
                    currentStep, samplerVolume, samplers, sequence,
                    channelParts >>
    /\ UNCHANGED << flagVars, clockVars, captureVars, settingVars, songVars,
                    miscVars, audioVars >>

NextGuard ==
    \/ ~AwaitsToneStart("togglePlay") /\ togglePlay
    \/ ~AwaitsToneStart("handleToggleRecord") /\ handleToggleRecord
    \/ \E name \in Requests : RequestAwaits(name)
    \/ \E name \in Requests : RequestResumes(name)
    \/ \E name \in Requests : RequestIgnored(name)
    \/ \E d \in AdvanceSizes : Advance(d)
    \/ ScheduledEvent
    \/ \E step \in StepIndices : patternSequenceTick(step)
    \/ \E d \in draws : DrawCallback(d)
    \/ \E c \in CountIns : setCountInBars(c)

SpecGuard == Init /\ [][NextGuard]_vars

(***************************************************************************)
(* Mute and solo, with samples dropped on channels and a second pattern    *)
(***************************************************************************)
\* the rows of the channel rack (active pattern) and of the mixer (first pattern)
StripIds ==
    { activePattern.channels[k].id : k \in 1..Len(activePattern.channels) }
       \cup { patterns[1].channels[k].id : k \in 1..Len(patterns[1].channels) }

NextMixer ==
    \/ \E c \in StripIds, type \in { "mute", "solo" } : handleChannelMuteSoloChange(c, type)
    \/ \E c \in StripIds, short \in BOOLEAN : handleSampleDrop(c, Kick, short)
    \/ handleAddPattern(FALSE)
    \/ \E p \in Range(patterns) : PatternSelect(p.id)
    \/ undoPatterns
    \/ redoPatterns

SpecMixer == Init /\ [][NextMixer]_vars

(***************************************************************************)
(* An export in its two steps: the handler up to its await (the offline    *)
(* render has been set up and isExporting is true) and the finally block.  *)
(* The overlay shown while isExporting covers the buttons; the space bar   *)
(* reaches togglePlay through the keydown listener of the window.          *)
(***************************************************************************)
ExportBegins(name, triggers) ==
    /\ ~isExporting
    /\ isExporting' = TRUE
    /\ scheduled' = triggers
    /\ rt' = RtIdle
    /\ lastOp' = [ name |-> name, step |-> 0 ]
    /\ UNCHANGED << history, activePatternId, selectedChannelId, nextId, opCount,
                    currentStep, draws, bpm, swing >>
    /\ UNCHANGED << flagVars, clockVars, captureVars, settingVars, songVars >>
    /\ samplerVolume' = AfterRender
    /\ samplers' = SamplersFollow
    /\ sequence' = SequenceFollows
    /\ channelParts' = PartsFollow
    /\ UNCHANGED audioVars

handleExportPatternBegins ==
    /\ HasPattern(patterns, activePatternId)
    /\ ExportBegins("handleExportPattern.begin", exportPatternToWav(activePattern))

handleExportSongBegins ==
    ExportBegins("handleExportSong.begin", renderSongToBuffer(playlist, patterns))

\* finally { setIsExporting(false) }
ExportSettles ==
    /\ isExporting
    /\ isExporting' = FALSE
    /\ rt' = RtIdle
    /\ lastOp' = [ name |-> "export.finally" ]
    /\ scheduled' = {}
    /\ UNCHANGED << history, activePatternId, selectedChannelId, nextId, opCount,
                    currentStep, draws, bpm, swing >>
    /\ UNCHANGED << flagVars, clockVars, captureVars, settingVars, songVars >>
    /\ samplerVolume' = AfterRender
    /\ samplers' = SamplersFollow
    /\ sequence' = SequenceFollows
    /\ channelParts' = PartsFollow
    /\ UNCHANGED audioVars

NextExport ==
    \/ handleExportPatternBegins
    \/ handleExportSongBegins
    \/ ExportSettles
    \/ togglePlay
    \/ ~isExporting /\ handleToggleRecord
    \/ \E d \in AdvanceSizes : Advance(d)
    \/ TransportEvent
    \/ \E step \in StepIndices : patternSequenceCallback(step)
    \/ ~isExporting /\ handleStepToggle(selectedChannelId, 0, FALSE)
    \/ ~isExporting /\ \E c \in CountIns : setCountInBars(c)

SpecExport == Init /\ [][NextExport]_vars

(***************************************************************************)
(* Opening a project file: handleOpen's reader.onload and loadProjectState *)
(***************************************************************************)
setBpm(value) ==
    /\ bpm' = value
    /\ rt' = RtIdle
    /\ lastOp' = Other
    /\ scheduled' = {}
    /\ UNCHANGED << history, activePatternId, selectedChannelId, nextId, opCount,
                    currentStep, draws, isExporting, swing >>
    /\ UNCHANGED << flagVars, clockVars, captureVars, settingVars, songVars >>
    /\ samplerVolume' = AfterRender
    /\ samplers' = SamplersFollow
    /\ sequence' = SequenceFollows
    /\ channelParts' = PartsFollow
    /\ UNCHANGED audioVars

setSwing(value) ==
    /\ swing' = value
    /\ rt' = RtIdle
    /\ lastOp' = Other
    /\ scheduled' = {}
    /\ UNCHANGED << history, activePatternId, selectedChannelId, nextId, opCount,
                    currentStep, draws, isExporting, bpm >>
    /\ UNCHANGED << flagVars, clockVars, captureVars, settingVars, songVars >>
    /\ samplerVolume' = AfterRender
    /\ samplers' = SamplersFollow
    /\ sequence' = SequenceFollows
    /\ channelParts' = PartsFollow
    /\ UNCHANGED audioVars

\* a saved project: one pattern with a sample and a step on its first channel,
\* one playlist entry, its own tempo and swing
SavedProject ==
    [ parsable |-> TRUE, samplesOk |-> TRUE, hasPatterns |-> TRUE,
      patterns |-> << [ createInitialPattern EXCEPT
                          !.channels[1].sample = Kick,
                          !.channels[1].steps = SetAt(@, 0, 1) ] >>,
      playlist |-> [ key \in { PlaylistKey(0, 0) } |-> 1 ],
      bpm |-> 90, swing |-> 500 ]

\* the files the picker may hand over: a good one, one that JSON.parse
\* rejects, one whose samples cannot be deserialized, one without patterns
\* and one with an empty patterns list
ProjectFiles ==
    { SavedProject,
      [ SavedProject EXCEPT !.parsable = FALSE ],
      [ SavedProject EXCEPT !.samplesOk = FALSE ],
      [ SavedProject EXCEPT !.hasPatterns = FALSE, !.patterns = << >> ],
      [ SavedProject EXCEPT !.patterns = << >> ] }

\* how far loadProjectState gets before it throws: 0 = JSON.parse throws,
\* 1 = deserializeTree throws, 2 = state.patterns.map throws,
\* 3 = newPatterns[0].channels throws, 4 = it returns
LoadStage(file) ==
    IF ~file.parsable THEN 0
    ELSE IF ~file.samplesOk THEN 1
    ELSE IF ~file.hasPatterns THEN 2
    ELSE IF Len(file.patterns) = 0 THEN 3
    ELSE 4

\* newPatterns[0].channels.forEach(channel => loadSampler(channel.sample, channel))
RECURSIVE LoadSamplers(_, _, _)
LoadSamplers(nodes, channels, k) ==
    IF k > Len(channels) THEN nodes
    ELSE LoadSamplers(IF ~channels[k].isAudioClipChannel /\ channels[k].sample.url # ""
                      THEN loadSampler(nodes, channels[k].sample)
                      ELSE nodes,
                      channels, k + 1)

handleOpen(file) ==
    LET stage == LoadStage(file) IN
    /\ IF stage >= 1 /\ transportState # "stopped"
       THEN /\ transportState' = "stopped" /\ transportPos' = 0 /\ events' = {}
            /\ ctxOffset' = 0
            /\ isPlaying' = FALSE
            /\ currentStep' = -1
       ELSE UNCHANGED << clockVars, isPlaying, currentStep >>
    \* disposeAllNodes, and the samplers made for the first pattern at the end
    /\ audioNodes' = IF stage = 0 THEN audioNodes
                     ELSE IF stage = 4 THEN LoadSamplers({}, file.patterns[1].channels, 1)
                     ELSE {}
    /\ samplerVolume' = IF stage = 0 THEN samplerVolume ELSE NewSamplers(audioNodes')
    /\ samplers' = IF stage = 0 THEN samplers
                   ELSE LET left == { i \in samplers : i.status # "registered" }
                        IN left \cup { NewSampler(left, name, "registered") :
                                       name \in audioNodes' }
    /\ UNCHANGED audioVars
    /\ bpm' = IF stage >= 2 THEN file.bpm ELSE bpm
    /\ swing' = IF stage >= 2 THEN file.swing ELSE swing
    /\ history' = IF stage >= 3
                   THEN [ past |-> << >>, present |-> file.patterns, future |-> << >> ]
                   ELSE history
    /\ playlist' = IF stage >= 3 THEN file.playlist ELSE playlist
    /\ IF stage = 4
       THEN /\ activePatternId' = file.patterns[1].id
            /\ brushPatternId' = file.patterns[1].id
            /\ selectedChannelId' = IF Len(file.patterns[1].channels) > 0
                                    THEN file.patterns[1].channels[1].id
                                    ELSE NoChannel
       ELSE UNCHANGED << activePatternId, brushPatternId, selectedChannelId >>
    /\ rt' = RtIdle
    /\ lastOp' = [ name |-> IF stage = 4 THEN "handleOpen.loaded" ELSE "handleOpen.failed",
                    stage |-> stage ]
    /\ scheduled' = {}
    /\ UNCHANGED << isRecording, isArmedForRecording, captureVars, playbackMode,
                    countInBars, quantizeSnapValue, draws, isExporting, nextId, opCount >>
    /\ EffectUnlock(isTransportTransitioning)
    /\ sequence' = SequenceAfter(IF stage >= 1 /\ transportState # "stopped"
                                 THEN NotStarted ELSE sequence.start)
    /\ channelParts' = PartsAfter(IF stage = 0 THEN channelParts ELSE << >>)

NextLoad ==
    \/ \E file \in ProjectFiles : handleOpen(file)
    \/ togglePlay
    \/ \E short \in BOOLEAN : handleSampleDrop(selectedChannelId, Kick, short)
    \/ handleStepToggle(selectedChannelId, 0, FALSE)
    \/ handleGridClick(0, 0)
    \/ handleGridContextMenu(0, 0)
    \/ setBpm(140)
    \/ setSwing(250)
    \/ undoPatterns
    \/ redoPatterns

SpecLoad == Init /\ [][NextLoad]_vars

(***************************************************************************)
(* The song export beside the live song sequence, over the same playlists  *)
(***************************************************************************)
NextSongExport ==
    \/ \E t \in 0..MaxTrack, b \in 0..MaxLiveBar :
          /\ Cardinality(DOMAIN GridClickValue(playlist, patterns, brushPatternId, t, b))
                <= MaxSongEntries
          /\ handleGridClick(t, b)
    \/ \E t \in 0..MaxTrack, b \in 0..MaxLiveBar : handleGridContextMenu(t, b)
    \/ \E p \in Range(patterns) : BrushSelect(p.id)
    \/ \E step \in LiveSteps : songSequenceCallback(step)
    \/ handleExportSong

SpecSongExport == InitSong /\ [][NextSongExport]_vars

(***************************************************************************)
(* Step toggles from every step value. The store starts as a project file  *)
(* leaves it (setInitialPatterns: no past), with one of the step values at *)
(* step 0 of the first channel and at step 1 of the last.                  *)
(***************************************************************************)
StepValues == { 0, 1, 2, 3, 4 }

OpenedPatterns(v, w) ==
    << [ createInitialPattern EXCEPT
           !.channels[1].steps = SetAt(@, 0, v),
           !.channels[NumChannels].steps = SetAt(@, 1, w) ] >>

InitSteps ==
    /\ \E v \in StepValues :
          history = [ past |-> << >>, present |-> OpenedPatterns(v, v), future |-> << >> ]
    /\ activePatternId = initialPatterns[1].id
    /\ selectedChannelId = initialPatterns[1].channels[1].id
    /\ brushPatternId = initialPatterns[1].id
    /\ playlist = EmptyPlaylist
    /\ playbackMode = "pattern"
    /\ countInBars = 1
    /\ quantizeSnapValue = "1/8"
    /\ isPlaying = FALSE
    /\ isRecording = FALSE
    /\ isArmedForRecording = FALSE
    /\ isTransportTransitioning = FALSE
    /\ transportState = "stopped"
    /\ transportPos = 0
    /\ events = {}
    /\ ctxOffset = 0
    /\ recordingStartTime = 0
    /\ activeNotes = << >>
    /\ recordedNotes = << >>
    /\ recCount = 0
    /\ audioNodes = {}
    /\ scheduled = {}
    /\ currentStep = -1
    /\ draws = {}
    /\ isExporting = FALSE
    /\ bpm = 120
    /\ swing = 0
    /\ samplerVolume = NewSamplers({})
    /\ samplers = RegisteredSamplers({})
    /\ sequence = FirstSequence(playbackMode, patterns, activePatternId,
                              transportState = "started")
    /\ channelParts = PartsEffect(playbackMode, PartsDeps[1], audioNodes)
    /\ isAudioStarted = FALSE
    /\ awaiting = {}
    /\ opCount = 0
    /\ nextId = 2
    /\ armed = NotArmed
    /\ rt = RtIdle
    /\ lastOp = [ name |-> "init" ]

NextSteps ==
    \/ \E c \in ChannelIds, i \in StepIndices : handleStepToggle(c, i, FALSE)
    \/ handleAddPattern(FALSE)
    \/ undoPatterns

SpecSteps == InitSteps /\ [][NextSteps]_vars

(***************************************************************************)
(* Pattern length changes with step toggles. The store starts as a project *)
(* file leaves it, the pattern having any of the lengths; the channel row  *)
(* renders channel.steps.slice(0, patternLength), so only the steps below  *)
(* the pattern's length can be toggled.                                    *)
(***************************************************************************)
\* the first step, and the first step of the second bar
RenderedSteps == { i \in { 0, StepsPerBar } : i < activePattern.length }

InitLength ==
    /\ \E l \in Lengths :
          history = [ past |-> << >>,
                      present |-> << [ createInitialPattern EXCEPT !.length = l ] >>,
                      future |-> << >> ]
    /\ activePatternId = initialPatterns[1].id
    /\ selectedChannelId = initialPatterns[1].channels[1].id
    /\ brushPatternId = initialPatterns[1].id
    /\ playlist = EmptyPlaylist
    /\ playbackMode = "pattern"
    /\ countInBars = 1
    /\ quantizeSnapValue = "1/8"
    /\ isPlaying = FALSE
    /\ isRecording = FALSE
    /\ isArmedForRecording = FALSE
    /\ isTransportTransitioning = FALSE
    /\ transportState = "stopped"
    /\ transportPos = 0
    /\ events = {}
    /\ ctxOffset = 0
    /\ recordingStartTime = 0
    /\ activeNotes = << >>
    /\ recordedNotes = << >>
    /\ recCount = 0
    /\ audioNodes = {}
    /\ scheduled = {}
    /\ currentStep = -1
    /\ draws = {}
    /\ isExporting = FALSE
    /\ bpm = 120
    /\ swing = 0
    /\ samplerVolume = NewSamplers({})
    /\ samplers = RegisteredSamplers({})
    /\ sequence = FirstSequence(playbackMode, patterns, activePatternId,
                              transportState = "started")
    /\ channelParts = PartsEffect(playbackMode, PartsDeps[1], audioNodes)
    /\ isAudioStarted = FALSE
    /\ awaiting = {}
    /\ opCount = 0
    /\ nextId = 2
    /\ armed = NotArmed
    /\ rt = RtIdle
    /\ lastOp = [ name |-> "init" ]

NextLength ==
    \/ \E l \in Lengths : handlePatternLengthChange(l, FALSE)
    \/ \E c \in ChannelIds, i \in RenderedSteps : handleStepToggle(c, i, FALSE)
    \/ undoPatterns
    \/ redoPatterns

SpecLength == InitLength /\ [][NextLength]_vars

(***************************************************************************)
(* The active pattern id under add pattern, select, undo, redo and load    *)
(***************************************************************************)
NextActive ==
    \/ handleAddPattern(FALSE)
    \/ \E p \in Range(patterns) : PatternSelect(p.id)
    \/ undoPatterns
    \/ redoPatterns
    \/ \E file \in ProjectFiles : handleOpen(file)

SpecActive == Init /\ [][NextActive]_vars

(***************************************************************************)
(* Recording of typed notes into the active pattern, with the quantize     *)
(* settings whose grid is wider than a step                                *)
(***************************************************************************)
NextRecord ==
    \/ togglePlay
    \/ handleToggleRecord
    \/ \E d \in { UnitsPerBar \div 2, 7 * UnitsPerStep } : Advance(d)
    \/ TransportEvent
    \/ isRecording /\ selectedChannelId # NoChannel
          /\ \E p \in Pitches, v \in Velocities : triggerTypingNote(selectedChannelId, p, v)
    \/ isRecording /\ selectedChannelId # NoChannel
          /\ \E p \in Pitches : releaseTypingNote(selectedChannelId, p)
    \/ \E c \in CountIns : setCountInBars(c)
    \/ \E q \in { "None", "1/8", "1/2" } : setQuantizeSnapValue(q)

SpecRecord == Init /\ [][NextRecord]_vars

(***************************************************************************)
(* The transition guard under fair scheduling: a pending Tone.start()      *)
(* resolves, a due transport event fires, a pending Tone.Draw callback is  *)
(* run. User requests are under no fairness.                               *)
(***************************************************************************)
SpecGuardLive ==
    /\ Init /\ [][NextGuard]_vars
    /\ WF_vars(\E name \in Requests : RequestResumes(name))
    /\ WF_vars(ScheduledEvent)
    /\ WF_vars(\E d \in draws : DrawCallback(d))

(***************************************************************************)
(* Sample loading with the load pending. loadSampler makes the sampler at  *)
(* the request and its onload sets it in audioNodes afterwards, so that a  *)
(* second request for the name may pass the audioNodes.has test meanwhile. *)
(***************************************************************************)

\* loadSampler up to the return: the new sampler is not in audioNodes yet
loadSamplerPending(made, sample) ==
    IF sample.name \in audioNodes \/ sample.url = "" THEN made
    ELSE made \cup { NewSampler(made, sample.name, "loading") }

handleSampleDropLoading(channelId, sample, short) ==
    /\ Mutate("handleSampleDrop",
              SampleDropValue(patterns, activePatternId, channelId, sample, short), FALSE)
    /\ samplers' = IF HasChannel(patterns, activePatternId, channelId)
                   THEN loadSamplerPending(samplers, sample)
                   ELSE samplers
    /\ scheduled' = {}
    /\ UNCHANGED << currentStep, miscVars >>
    /\ UNCHANGED << activePatternId, selectedChannelId, nextId, settingVars >>
    /\ UNCHANGED << flagVars, clockVars, captureVars, songVars >>
    /\ samplerVolume' = AfterRender
    /\ sequence' = SequenceFollows
    /\ channelParts' = PartsFollow
    /\ UNCHANGED audioVars

\* onload: audioNodes.current.set(sample.name, { sampler, ... })
SamplerLoaded(i) ==
    /\ i \in samplers
    /\ i.status = "loading"
    /\ audioNodes' = audioNodes \cup { i.name }
    /\ samplers' = { IF j = i THEN [ j EXCEPT !.status = "registered" ]
                     ELSE IF j.name = i.name /\ j.status = "registered"
                          THEN [ j EXCEPT !.status = "replaced" ]
                          ELSE j : j \in samplers }
    /\ samplerVolume' = [ name \in audioNodes' |->
                            IF name = i.name THEN Gain(0) ELSE samplerVolume[name] ]
    /\ rt' = RtIdle
    /\ lastOp' = [ name |-> "loadSampler.onload", sampler |-> i.id ]
    /\ UNCHANGED << history, activePatternId, selectedChannelId, nextId, opCount,
                    playbackMode, countInBars, quantizeSnapValue, scheduled,
                    currentStep, miscVars, sequence >>
    /\ channelParts' = PartsFollow
    /\ UNCHANGED << flagVars, clockVars, captureVars, songVars, audioVars >>

NextVoices ==
    \/ /\ Len(patterns) > 0
       /\ \E channelId \in ChannelIds, short \in BOOLEAN :
             handleSampleDropLoading(channelId, Kick, short)
    \/ \E i \in samplers : SamplerLoaded(i)
    \/ \E file \in ProjectFiles : handleOpen(file)
    \/ handleAddPattern(FALSE)
    \/ undoPatterns

SpecVoices == Init /\ [][NextVoices]_vars

(***************************************************************************)
(* Count-in: recording armed on a rack whose channels have steps and       *)
(* samples, with the transport stopped or running                          *)
(***************************************************************************)
NextCountIn ==
    \/ togglePlay
    \/ handleToggleRecord
    \/ \E d \in AdvanceSizes : Advance(d)
    \/ ScheduledEvent
    \/ \E step \in StepIndices : patternSequenceTick(step)
    \/ \E d \in draws : DrawCallback(d)
    \/ \E channelId \in ChannelIds \ { selectedChannelId } :
          handleSampleDrop(channelId, Kick, FALSE)
    \/ \E channelId \in ChannelIds : handleStepToggle(channelId, 0, FALSE)

SpecCountIn == Init /\ [][NextCountIn]_vars

(***************************************************************************)
(* Rebuilds of the sequence and of the parts while the clock runs: edits   *)
(* of steps and notes, the view, the active pattern and the length         *)
(***************************************************************************)
\* the last channel of the rack
LastChannelId == activePattern.channels[Len(activePattern.channels)].id

NextRebuild ==
    \/ handleOpen(SavedProject)
    \/ handleSampleDrop(LastChannelId, Kick, FALSE)
    \/ \E n \in NoteLists \ { << >> } : handleUpdateChannelNotes(LastChannelId, n)
    \/ handlePatternLengthChange(2 * StepsPerBar, FALSE)
    \/ \E v \in { "pattern", "song" } : setView(v)
    \/ handleAddPattern(FALSE)
    \/ togglePlay
    \/ transportPos = 0 /\ \E d \in AdvanceSizes : Advance(d)
    \/ patternSequenceTick(0)

SpecRebuild == Init /\ [][NextRebuild]_vars

(***************************************************************************)
(* Properties of the undo history                                          *)
(***************************************************************************)
SetOps == { "handleStepToggle", "handleStepSubdivide", "handleClearPattern",
            "handlePatternLengthChange", "handleAddPattern",
            "handleUpdateChannelNotes" }

\* C1 as stated: N calls of set (those that change nothing included), then N
\* undos, give back the present from before the first call; N redos then
\* give back the present from before the first undo.
C1_RoundTripAnyMutations ==
    /\ (rt.phase = "undo" /\ rt.undos = rt.nAll) => history.present = rt.base
    /\ (rt.phase = "redo" /\ rt.undos = rt.nAll /\ rt.redos = rt.nAll)
          => history.present = rt.top

\* C1 amended: of a sequence of calls of set, N change the patterns (a call
\* that leaves them structurally equal is not pushed and does not count);
\* N undos then give back the present from before the first call, and N
\* redos after that the present from before the first undo.
C1_RoundTripEffectiveMutations ==
    /\ (rt.phase = "undo" /\ rt.undos = rt.nEff) => history.present = rt.base
    /\ (rt.phase = "redo" /\ rt.undos = rt.nEff /\ rt.redos = rt.nEff)
          => history.present = rt.top

C1_Witness ==
    /\ rt.phase = "redo"
    /\ rt.nEff >= 2
    /\ rt.nAll > rt.nEff
    /\ rt.undos = rt.nEff
    /\ rt.redos = rt.nEff
    /\ rt.base # rt.top
    /\ history.present = rt.top

\* C2: a call of set whose new value is structurally equal to the present
\* leaves past, present and future as they were.
C2_NoOpSetLeavesHistory ==
    [][ (lastOp'.name \in SetOps /\ JsonEqual(lastOp'.value, history.present))
            => history' = history ]_vars

\* a set that changed nothing, on a pattern id that is no longer in the
\* store, with both an undo and a redo list to lose
C2_Witness ==
    /\ lastOp.name = "handleStepSubdivide"
    /\ ~lastOp.changed
    /\ ~HasPattern(patterns, activePatternId)
    /\ Len(history.past) > 0
    /\ Len(history.future) > 0

(***************************************************************************)
(* Properties of the playlist                                              *)
(***************************************************************************)
\* the bar range of an entry, in 16ths: [from, to); an entry whose pattern
\* is not in the store has none
EntryFrom(key) == KeyBar(key) * StepsPerBar
EntryTo(pl, ps, key) == KeyBar(key) * StepsPerBar + FindPattern(ps, pl[key]).length

Intersect(a1, a2, b1, b2) == a1 < b2 /\ b1 < a2

\* C3: no two entries of one track have intersecting bar ranges
\* [startBar, startBar + patternLength/16).
C3_NoOverlapOnTrack ==
    \A k1, k2 \in DOMAIN playlist :
        (/\ k1 # k2
         /\ KeyTrack(k1) = KeyTrack(k2)
         /\ HasPattern(patterns, playlist[k1])
         /\ HasPattern(patterns, playlist[k2]))
        => ~Intersect(EntryFrom(k1), EntryTo(playlist, patterns, k1),
                      EntryFrom(k2), EntryTo(playlist, patterns, k2))

\* C4: placing the brush pattern at (track, bar) removes exactly the entries
\* of that track whose range intersects [bar, bar + newLengthInBars), sets
\* the key track:bar to the brush pattern id, and leaves every other entry
\* (other tracks, and the rest of this track) as it was.
PlacedAsClaimed(pl, pl2, ps, brushId, track, bar) ==
    LET newKey == PlaylistKey(track, bar)
        newFrom == bar * StepsPerBar
        newTo == bar * StepsPerBar + FindPattern(ps, brushId).length
        hit(key) == /\ KeyTrack(key) = track
                    /\ HasPattern(ps, pl[key])
                    /\ Intersect(EntryFrom(key), EntryTo(pl, ps, key), newFrom, newTo)
    IN /\ newKey \in DOMAIN pl2
       /\ pl2[newKey] = brushId
       /\ \A key \in DOMAIN pl \ { newKey } :
             IF hit(key) THEN key \notin DOMAIN pl2
                         ELSE key \in DOMAIN pl2 /\ pl2[key] = pl[key]
       /\ DOMAIN pl2 \subseteq DOMAIN pl \cup { newKey }

C4_PlacementFrame ==
    [][ (lastOp'.name = "handleGridClick" /\ HasPattern(patterns, brushPatternId))
          => PlacedAsClaimed(playlist, playlist', patterns, brushPatternId,
                             lastOp'.track, lastOp'.bar) ]_vars

\* after a placement that removed another entry of its track: the new entry
\* is there, 2 bars long, beside an entry of another track whose range
\* intersects it
C4_Witness ==
    /\ lastOp.name = "handleGridClick"
    /\ lastOp.removed \ { PlaylistKey(lastOp.track, lastOp.bar) } # {}
    /\ PlaylistKey(lastOp.track, lastOp.bar) \in DOMAIN playlist
    /\ FindPattern(patterns, playlist[PlaylistKey(lastOp.track, lastOp.bar)]).length = 32
    /\ \E k \in DOMAIN playlist :
          /\ KeyTrack(k) # lastOp.track
          /\ HasPattern(patterns, playlist[k])
          /\ Intersect(EntryFrom(k), EntryTo(playlist, patterns, k),
                       lastOp.bar * StepsPerBar, lastOp.bar * StepsPerBar + 32)

(***************************************************************************)
(* Properties of song playback and of the scheduling paths                 *)
(***************************************************************************)
\* the entries of a track whose range [startBar, startBar + length/16)
\* holds bar b, read off the keys of the playlist
CoveringKeys(pl, ps, track, b) ==
    { key \in DOMAIN pl :
        /\ KeyTrack(key) = track
        /\ HasPattern(ps, pl[key])
        /\ KeyBar(key) <= b
        /\ EntryTo(pl, ps, key) > b * StepsPerBar }

GreatestStart(keys) == CHOOSE key \in keys : \A other \in keys : KeyBar(other) <= KeyBar(key)

\* C5: on one track, the resolver returns for bar b the pattern placed at the
\* greatest startBar s <= b with s + patternLength/16 > b, and none when no
\* entry of the track satisfies this.
C5_ResolverGreatestCoveringStart ==
    \A track \in 0..MaxTrack, b \in 0..(MaxSongBar + 1) :
        LET keys == CoveringKeys(playlist, patterns, track, b) IN
        ResolveOnTrack(playlist, patterns, track, b, b) =
            IF keys = {} THEN NoMatch
            ELSE [ patternId |-> playlist[GreatestStart(keys)],
                   startBar |-> KeyBar(GreatestStart(keys)) ]

\* the example of the claim, a bar earlier: 0:0 -> a pattern of 2 bars and
\* 0:2 -> a pattern of 1 bar; the callback has run for bar 1 and the resolver
\* gives the first pattern at bar 1, the second at bar 2, none at bar 3
C5_Witness ==
    /\ lastOp.name = "songSequenceCallback"
    /\ lastOp.step \div StepsPerBar = 1
    /\ DOMAIN playlist = { PlaylistKey(0, 0), PlaylistKey(0, 2) }
    /\ FindPattern(patterns, playlist[PlaylistKey(0, 0)]).length = 2 * StepsPerBar
    /\ FindPattern(patterns, playlist[PlaylistKey(0, 2)]).length = StepsPerBar
    /\ ResolveOnTrack(playlist, patterns, 0, 1, 1).patternId = playlist[PlaylistKey(0, 0)]
    /\ ResolveOnTrack(playlist, patterns, 0, 2, 2).patternId = playlist[PlaylistKey(0, 2)]
    /\ ResolveOnTrack(playlist, patterns, 0, 3, 3) = NoMatch

\* the tracks that have an entry holding bar b
CoveringTracks(pl, ps, b) ==
    { KeyTrack(key) : key \in { q \in DOMAIN pl :
                                  /\ HasPattern(ps, pl[q])
                                  /\ KeyBar(q) <= b
                                  /\ EntryTo(pl, ps, q) > b * StepsPerBar } }

LowestTrack(tracks) == CHOOSE t \in tracks : \A u \in tracks : t <= u

\* C6: in live song playback every trigger of a global step belongs to one
\* pattern, the one resolved on the lowest track that has an entry holding the
\* bar; entries holding the bar on higher tracks trigger nothing.
C6_LowestTrackPlays ==
    lastOp.name = "songSequenceCallback" =>
        LET bar == lastOp.step \div StepsPerBar
            tracks == CoveringTracks(playlist, patterns, bar)
        IN IF tracks = {} THEN scheduled = {}
           ELSE \A tr \in scheduled :
                   tr.patternId =
                      playlist[GreatestStart(CoveringKeys(playlist, patterns,
                                                          LowestTrack(tracks), bar))]

\* the callback has triggered the pattern of the lower track while a higher
\* track holds, at the same bar, another pattern whose first step is set
C6_Witness ==
    /\ lastOp.name = "songSequenceCallback"
    /\ scheduled # {}
    /\ \E key \in DOMAIN playlist :
          /\ KeyTrack(key) > LowestTrack(CoveringTracks(playlist, patterns,
                                                        lastOp.step \div StepsPerBar))
          /\ KeyBar(key) = lastOp.step \div StepsPerBar
          /\ HasPattern(patterns, playlist[key])
          /\ \A tr \in scheduled : tr.patternId # playlist[key]
          /\ \E k \in 1..Len(FindPattern(patterns, playlist[key]).channels) :
                LET channel == FindPattern(patterns, playlist[key]).channels[k] IN
                /\ StepAt(channel.steps, 0) > 0
                /\ channel.sample.name \in audioNodes
                /\ Len(channel.notes) = 0

SchedulingOps == { "patternSequenceCallback", "songSequenceCallback",
                   "handleExportPattern", "handleExportSong" }

\* C7: on each of the four scheduling paths (live pattern, live song, pattern
\* export, song export) no step trigger goes to a channel whose notes list is
\* not empty.
C7_NotesSuppressSteps ==
    lastOp.name \in SchedulingOps =>
        \A tr \in scheduled :
            \A i \in 1..Len(patterns) :
                \A k \in 1..Len(patterns[i].channels) :
                    (patterns[i].id = tr.patternId
                       /\ patterns[i].channels[k].id = tr.channelId)
                    => Len(patterns[i].channels[k].notes) = 0

(***************************************************************************)
(* Properties of recording                                                 *)
(***************************************************************************)
\* the store with the channel of this id, wherever it is, cleared
SelectedChannelCleared(ps, channelId) ==
    [ i \in 1..Len(ps) |->
        [ ps[i] EXCEPT !.channels =
            [ k \in 1..Len(ps[i].channels) |->
                IF ps[i].channels[k].id = channelId
                THEN [ ps[i].channels[k] EXCEPT !.notes = << >>,
                                                !.steps = Zeros(@.len) ]
                ELSE ps[i].channels[k] ] ] ]

\* C8: a record request accepted in the Stopped state with a selected channel
\* arms the transport and at once empties the notes and zeroes the steps of
\* the selected channel in the store, every other channel and pattern staying
\* as it was; a request with no selected channel changes nothing.
C8_ArmClearsSelectedChannel ==
    /\ (lastOp.name = "handleToggleRecord.arm" /\ lastOp.wasStopped)
          => /\ isArmedForRecording
             /\ patterns = SelectedChannelCleared(lastOp.before, lastOp.channelId)
    /\ lastOp.name = "handleToggleRecord.refused"
          => /\ patterns = lastOp.before
             /\ ~isArmedForRecording /\ ~isRecording /\ ~isPlaying
             /\ transportState = "stopped"

\* C9: recording is bounded to one pass: while a record request is in force
\* (armed or recording) the transport time never exceeds
\* countInBars bars + the active pattern's length in steps, the time at which
\* the transport goes back to Stopped by itself; also when the transport was
\* already running at the request.
C9_RecordingStopsAtPatternEnd ==
    (isArmedForRecording \/ isRecording) => transportPos <= armed.stopAt

\* C10: when a recording ends, by the stop at the pattern's end or by the
\* user, the captured notes (quantized) are the notes of the channel of the
\* pattern that was cleared at the arming, whatever was selected or made
\* active since.
C10_NotesGoToArmedChannel ==
    (/\ lastOp.name \in { "togglePlay.stop", "handleToggleRecord.stop", "autoStop" }
     /\ lastOp.wasRecording
     /\ lastOp.armed.found
     /\ Len(lastOp.captured) > 0)
    => \E i \in 1..Len(patterns) :
          /\ patterns[i].id = lastOp.armed.patternId
          /\ \E k \in 1..Len(patterns[i].channels) :
                /\ patterns[i].channels[k].id = lastOp.armed.channelId
                /\ patterns[i].channels[k].notes = lastOp.captured

(***************************************************************************)
(* Properties of quantizeNotes                                             *)
(***************************************************************************)
Abs(x) == IF x >= 0 THEN x ELSE 0 - x

\* the grid sizes as the claim lists them, in 16th steps times 4
ClaimedGridQuarters ==
    [ snap \in AllSnapValues \ { "None" } |->
        CASE snap = "1/2" -> 32
          [] snap = "1/4" -> 16
          [] snap = "1/8" -> 8
          [] snap = "1/16" -> 4
          [] snap = "1/32" -> 2
          [] snap = "1/64" -> 1 ]

\* m is a multiple of q and no multiple of q is nearer to x
NearestMultiple(m, x, q) == m % q = 0 /\ 2 * Abs(m - x) <= q

\* C11: after quantizeNotes with a grid setting of size q > 0 every note's
\* start is the multiple of q nearest to the old start, its duration is the
\* greater of q and the multiple of q nearest to the old duration, and its
\* pitch, velocity and id are the old ones; with 'None' the notes come back
\* unchanged.
C11_QuantizeToNearestGrid ==
    lastOp.name = "quantizeNotes" =>
        LET old == lastOp.notes
            snap == lastOp.snapValue
        IN IF snap = "None" THEN recordedNotes = old
           ELSE LET q == (ClaimedGridQuarters[snap] * UnitsPerStep) \div 4 IN
                /\ q > 0
                /\ Len(recordedNotes) = Len(old)
                /\ \A i \in 1..Len(old) :
                      /\ NearestMultiple(recordedNotes[i].start, old[i].start, q)
                      /\ \E m \in { k * q : k \in 0..(MaxNoteDuration \div q + 1) } :
                            /\ NearestMultiple(m, old[i].duration, q)
                            /\ recordedNotes[i].duration = Max(q, m)
                      /\ recordedNotes[i].pitch = old[i].pitch
                      /\ recordedNotes[i].velocity = old[i].velocity
                      /\ recordedNotes[i].id = old[i].id

\* the claim's example: start 3.3, duration 1.7 at 1/4 gives start 4, duration 4
C11_Witness ==
    /\ lastOp.name = "quantizeNotes"
    /\ lastOp.snapValue = "1/4"
    /\ lastOp.notes[1].start = (33 * UnitsPerStep) \div 10
    /\ lastOp.notes[1].duration = (17 * UnitsPerStep) \div 10
    /\ recordedNotes[1].start = 4 * UnitsPerStep
    /\ recordedNotes[1].duration = 4 * UnitsPerStep

(***************************************************************************)
(* Properties of the stop                                                  *)
(***************************************************************************)
\* C12: once the transport has been stopped, nothing scheduled before the stop
\* takes effect: until the next accepted play or record request (which starts
\* the transport) isPlaying, isRecording and isArmedForRecording are false
\* and the current-step indicator is -1.
C12_NothingTakesEffectAfterStop ==
    transportState = "stopped" =>
        /\ ~isPlaying
        /\ ~isRecording
        /\ ~isArmedForRecording
        /\ currentStep = -1

(***************************************************************************)
(* Properties of mute and solo                                             *)
(***************************************************************************)
\* the gain the claim gives a channel among the channels of its pattern
ClaimedGain(channels, channel) ==
    LET someSoloed == \E k \in 1..Len(channels) : channels[k].isSoloed
    IN IF (someSoloed /\ ~channel.isSoloed) \/ (~someSoloed /\ channel.isMuted)
       THEN MinusInfinity
       ELSE Gain(channel.volume)

\* C13: the gain a channel is emitted with (the volume of the sampler of its
\* sample) is -Infinity exactly when some channel is soloed and this one is
\* not, or no channel is soloed and this one is muted, and is the channel's
\* volume otherwise; for every channel that has a sampler, of every pattern.
C13_MuteSoloGain ==
    \A i \in 1..Len(patterns) :
        \A k \in 1..Len(patterns[i].channels) :
            LET channel == patterns[i].channels[k] IN
            channel.sample.name \in DOMAIN samplerVolume =>
                samplerVolume[channel.sample.name] = ClaimedGain(patterns[i].channels, channel)

(***************************************************************************)
(* Properties of the export                                                *)
(***************************************************************************)
\* C14: while isExporting is true the transport is not running and no play
\* or record request has been accepted; an export does not begin while the
\* transport runs.
C14_ExportExcludesTransport ==
    isExporting =>
        /\ transportState = "stopped"
        /\ ~isPlaying
        /\ ~isRecording
        /\ ~isArmedForRecording

(***************************************************************************)
(* Properties of the project load                                          *)
(***************************************************************************)
\* C15: a load that fails (unparsable file, missing or empty patterns, samples
\* that cannot be deserialized) leaves the patterns, the undo history, the
\* playlist, BPM, swing, the transport state and the audio nodes as they were.
C15_FailedLoadChangesNothing ==
    [][ lastOp'.name = "handleOpen.failed" =>
          UNCHANGED << history, playlist, bpm, swing, transportState, isPlaying,
                       audioNodes >> ]_vars

(***************************************************************************)
(* Properties of the exports against live playback                         *)
(***************************************************************************)
\* a trigger without the name of the path that issued it
StepHit(trigger) ==
    [ channelId |-> trigger.channelId, step |-> trigger.step, hits |-> trigger.hits ]

\* what patternSequenceCallback issues over one pass of the pattern
LivePassTriggers(pattern) ==
    UNION { PatternStepTriggers(pattern, step) : step \in 0..(pattern.length - 1) }

\* C16: the pattern export schedules what one pass of live pattern-mode
\* playback of the active pattern issues: the same channels at the same
\* steps with the same number of hits (none for a channel driven by notes).
C16_PatternExportEqualsLivePass ==
    lastOp.name = "handleExportPattern" =>
        { StepHit(trigger) : trigger \in scheduled }
            = { StepHit(trigger) : trigger \in LivePassTriggers(activePattern) }

\* the global steps at which either path can issue a trigger
SongGlobalSteps(pl, ps) ==
    LET end == songEndBar16(pl, ps)
        limit == SongLengthBars * StepsPerBar
    IN 0..((IF end < limit THEN end ELSE limit) - 1)

\* what songSequenceCallback issues over the song
LiveSongTriggers(pl, ps) ==
    UNION { SongStepTriggers(pl, ps, g) : g \in SongGlobalSteps(pl, ps) }

\* C17: the song export schedules a step trigger at global step g for a
\* channel exactly when live song mode issues one there: only for the
\* pattern on the lowest track that covers the bar.
C17_SongExportEqualsLiveSong ==
    lastOp.name = "handleExportSong" =>
        { StepHit(trigger) : trigger \in scheduled }
            = { StepHit(trigger) : trigger \in LiveSongTriggers(playlist, patterns) }

(***************************************************************************)
(* Properties of the step toggle                                           *)
(***************************************************************************)
\* the cycle as the claim gives it: 0 -> 1 -> 2 -> 4 -> 3 -> 1
ClaimedCycle == [ v \in StepValues |->
                    CASE v = 0 -> 1 [] v = 1 -> 2 [] v = 2 -> 4 [] v = 4 -> 3 [] v = 3 -> 1 ]

\* ps2 is ps with the one step moved along the cycle
OneStepCycled(ps, ps2, i, k, j) ==
    /\ StepAt(ps2[i].channels[k].steps, j) = ClaimedCycle[StepAt(ps[i].channels[k].steps, j)]
    /\ StepAt(ps2[i].channels[k].steps, j) # 0
    /\ ps2 = [ ps EXCEPT ![i].channels[k].steps =
                             SetAt(@, j, StepAt(ps2[i].channels[k].steps, j)) ]

\* C18: a step toggle moves the step along 0 -> 1 -> 2 -> 4 -> 3 -> 1, never
\* back to 0, and modifies no other step, channel or pattern.
C18_StepToggleCycle ==
    [][ lastOp'.name = "handleStepToggle" =>
          \/ patterns' = patterns /\ ~lastOp'.changed
          \/ \E i \in 1..Len(patterns) :
                /\ patterns[i].id = activePatternId
                /\ \E k \in 1..Len(patterns[i].channels), j \in 0..(MAX_STEPS - 1) :
                      OneStepCycled(patterns, patterns', i, k, j) ]_vars

\* a toggle has taken step 0 of the first channel from 3 to 1
C18_Witness ==
    /\ lastOp.name = "handleStepToggle"
    /\ lastOp.changed
    /\ Len(history.past) > 0
    /\ StepAt(history.past[Len(history.past)][1].channels[1].steps, 0) = 3
    /\ StepAt(patterns[1].channels[1].steps, 0) = 1

(***************************************************************************)
(* Properties of the pattern length change                                 *)
(***************************************************************************)
\* C19: setting the length of an active pattern of length 16 to 32 leaves
\* every channel's steps 0-15 as they were and steps 16-31 equal to 0, and no
\* length change shortens a steps array.
C19_GrowthPreservesContent ==
    [][ lastOp'.name = "handlePatternLengthChange" =>
          /\ \A k \in 1..Len(activePattern.channels) :
                activePattern'.channels[k].steps.len >= activePattern.channels[k].steps.len
          /\ (activePattern.length = 16 /\ activePattern'.length = 32) =>
                \A k \in 1..Len(activePattern.channels) :
                   /\ \A j \in 0..15 :
                         StepAt(activePattern'.channels[k].steps, j) =
                            StepAt(activePattern.channels[k].steps, j)
                   /\ \A j \in 16..31 :
                         StepAt(activePattern'.channels[k].steps, j) = 0 ]_vars

(***************************************************************************)
(* Properties of the transition guard                                      *)
(***************************************************************************)
\* the step is a play or record request (not the resumption of an earlier one)
IsRequest ==
    /\ awaiting \subseteq awaiting'
    /\ lastOp'.name \in { "togglePlay.start", "togglePlay.stop", "handleToggleRecord.stop",
                          "handleToggleRecord.arm", "handleToggleRecord.refused",
                          "awaits", "ignored" }

\* C20: a play or record request made while the guard flag is set changes
\* neither the transport, its scheduled events, the pattern store nor the
\* flags, and at no time are two requests in progress.
C20_GuardIgnoresRequests ==
    /\ [][ (isTransportTransitioning /\ IsRequest) =>
             UNCHANGED << history, flagVars, clockVars, captureVars, draws, currentStep,
                          audioVars >> ]_vars
    /\ [](Cardinality(awaiting) <= 1)

\* a record request has been ignored while togglePlay waits for Tone.start()
C20_Witness ==
    /\ lastOp = [ name |-> "ignored", handler |-> "handleToggleRecord" ]
    /\ awaiting = { "togglePlay" }
    /\ isTransportTransitioning
    /\ transportState = "stopped"

(***************************************************************************)
(* Properties of the active pattern id                                     *)
(***************************************************************************)
\* C25: activePatternId is always the id of a pattern of the pattern store.
C25_ActivePatternExists == HasPattern(patterns, activePatternId)

(***************************************************************************)
(* Properties of the transport flags                                       *)
(***************************************************************************)
\* C26: the flags encode exactly one of Stopped, Armed, Playing, Recording,
\* and whenever a flag is true the transport clock is running.
C26_FlagConsistency ==
    /\ << isPlaying, isRecording, isArmedForRecording >> \in
          { << FALSE, FALSE, FALSE >>, << FALSE, FALSE, TRUE >>,
            << TRUE, FALSE, FALSE >>, << TRUE, TRUE, FALSE >> }
    /\ (isPlaying \/ isRecording \/ isArmedForRecording) => transportState = "started"

(***************************************************************************)
(* Properties of the channel strip changes                                 *)
(***************************************************************************)
\* the channel with its mute or solo flag toggled
Toggled(channel, type) ==
    IF type = "mute"
    THEN [ channel EXCEPT !.isMuted = ~channel.isMuted,
                          !.isSoloed = IF ~channel.isMuted THEN FALSE ELSE channel.isSoloed ]
    ELSE [ channel EXCEPT !.isSoloed = ~channel.isSoloed,
                          !.isMuted = IF ~channel.isSoloed THEN FALSE ELSE channel.isMuted ]

\* the toggle applied to the channel at index k of every pattern
ToggledAtIndex(ps, k, type) ==
    [ i \in 1..Len(ps) |-> [ ps[i] EXCEPT !.channels[k] = Toggled(@, type) ] ]

\* C27: a mute or solo toggle requested with the id of a channel of a pattern
\* (the rows of the active pattern, the strips of the first) is applied to the
\* channel at that index in every pattern, whichever pattern is active.
C27_StripChangeReachesEveryPattern ==
    [][ lastOp'.name = "handleChannelMuteSoloChange" =>
          \E k \in 1..NumChannels, type \in { "mute", "solo" } :
             patterns' = ToggledAtIndex(patterns, k, type) ]_vars

(***************************************************************************)
(* Properties of the recorded notes                                        *)
(***************************************************************************)
\* the step is a stop that wrote the recorded notes to the pattern store
WritesRecording ==
    /\ lastOp'.name \in { "togglePlay.stop", "handleToggleRecord.stop", "autoStop" }
    /\ lastOp'.wasRecording
    /\ lastOp'.channelId # NoChannel
    /\ Len(lastOp'.captured) > 0

\* C28: every note the recording finalization writes to the pattern store
\* starts at or after 0 and before the length of the active pattern, and has
\* a duration above 0.
C28_RecordedNotesInsideLoop ==
    [][ WritesRecording =>
          \A i \in 1..Len(lastOp'.captured) :
             /\ lastOp'.captured[i].start >= 0
             /\ lastOp'.captured[i].start < activePattern.length * UnitsPerStep
             /\ lastOp'.captured[i].duration > 0 ]_vars

(***************************************************************************)
(* Properties of the transition guard under fair scheduling                *)
(***************************************************************************)
\* C30: whenever the guard flag is set it is eventually cleared.
C30_GuardEventuallyCleared == isTransportTransitioning ~> ~isTransportTransitioning

(***************************************************************************)
(* Properties of the choke                                                 *)
(***************************************************************************)
\* every attack of the call sequence has a release-all before it in program
\* order, scheduled for the same time
ReleasedBeforeEveryAttack(calls) ==
    \A j \in 1..Len(calls) :
        calls[j].call = "triggerAttack" =>
            \E i \in 1..(j - 1) :
                calls[i].call = "releaseAll" /\ calls[i].time = calls[j].time

\* the channel of the store a trigger of live playback was issued for
TriggeredChannelCutsItself(tr) ==
    \E i \in 1..Len(patterns) :
        /\ patterns[i].id = tr.patternId
        /\ \E k \in 1..Len(patterns[i].channels) :
              patterns[i].channels[k].id = tr.channelId /\ patterns[i].channels[k].cutItself

\* C21: on a channel with cutItself set, every attack live playback triggers
\* (a single hit and each sub-hit of a roll) is preceded in program order by a
\* release-all of the channel's sampler scheduled for the same time.
C21_ChokeBeforeEveryAttack ==
    lastOp.name \in { "patternSequenceCallback", "songSequenceCallback" } =>
        \A tr \in scheduled :
            TriggeredChannelCutsItself(tr) => ReleasedBeforeEveryAttack(tr.calls)

\* C24: of the samplers whose load has completed, at most one per sample
\* name is undisposed, and it is the one audioNodes holds under its name
C24_VoiceSingletons ==
    /\ \A i, j \in samplers :
          /\ i.name = j.name
          /\ i.status \in { "registered", "replaced" }
          /\ j.status \in { "registered", "replaced" }
          => i = j
    /\ \A i \in samplers : i.status \in { "loading", "registered" }

\* what the committed store gives for the step the last tick was called with
CommittedTriggers ==
    IF lastOp.name = "patternSequenceCallback"
    THEN PatternStepTriggers(FindPattern(patterns, activePatternId), lastOp.step)
    ELSE SongStepTriggers(playlist, patterns, lastOp.step)

\* C23: the triggers of every tick of the pattern sequence and of the song
\* sequence are those the committed patterns give for the step: step value,
\* notes, sample and cutItself of each channel as the store holds them
C23_NoStaleReads ==
    lastOp.name \in { "patternSequenceCallback", "songSequenceCallback" }
       => scheduled = CommittedTriggers

\* recording is armed and the transport has not reached the recording start
CountingIn ==
    /\ isArmedForRecording
    /\ \E e \in events : e.kind = "start" /\ transportPos < e.time

\* C29: no call of the step sequence triggers a sampler during count-in
C29_SilentCountIn ==
    lastOp.name = "patternSequenceTick" /\ scheduled # {} => ~CountingIn

\* the channels the last call of the step sequence triggered
TriggeredChannels == { tr.channelId : tr \in scheduled }

====
